---------------------------- MODULE Spec2Model ----------------------------
(***************************************************************************)
(* Reporting hierarchy of the organizational-identity backend.             *)
(*                                                                         *)
(* The User collection is modelled by one function per field, the role     *)
(* collection by the table RoleLevel, and every request handler of         *)
(* controllers/reporting.controller.js (the routed variant, with           *)
(* removeReportingAuthority and getUserHierarchy),                         *)
(* controllers/assignReporting.controller.js and the soft delete of        *)
(* controllers/user.controllers.js by one action.  A handler runs to       *)
(* completion in one step; the response it sends is kept in `last`.        *)
(***************************************************************************)
EXTENDS Integers, Sequences, FiniteSets, TLC

(***************************************************************************)
(* Bounds                                                                  *)
(***************************************************************************)
\* Number of user documents of the seeded directory.
NumUsers == 3

\* ObjectIds a request can name: those of the seeded users and one more.
Ids == 1..(NumUsers + 1)

\* reportingTo: { default: null }; `!reportingToId` is true of it.
Null == 0

\* A body field that was not sent, or sent empty: `!field` is true of it.
NoValue == ""

\* The two users whose role and branches the policy specification draws.
PolicyUsers == {1, 2}

Branches == {"X", "Y"}

(***************************************************************************)
(* Roles.  registerUser gives every new user the role named "user"; the    *)
(* UserRole schema declares no roleLevel, so a role written through the    *)
(* role controllers carries none and `role?.roleLevel` is undefined.  The  *)
(* other roles stand for role documents that do carry a level.             *)
(***************************************************************************)
RoleNames == {"user", "director", "head", "officer", "clerk"}

\* The value of `role?.roleLevel` for a role document without the field.
Undefined == -1

RoleLevel(r) ==
    CASE r = "superadmin" -> 1
      [] r = "director" -> 5
      [] r = "head"     -> 10
      [] r = "officer"  -> 15
      [] r = "clerk"    -> 25
      [] OTHER          -> Undefined

\* JavaScript relational operators: any comparison with undefined is false.
JsGE(a, b) == a # Undefined /\ b # Undefined /\ a >= b
JsGT(a, b) == a # Undefined /\ b # Undefined /\ a > b

\* `reportingUser.role?.roleLevel > 10`: above it the branch check applies.
BranchExemptLevel == 10

\* `loggedInUser.role?.roleLevel > 20`: above it removal is refused.
RemoveMaxLevel == 20

(***************************************************************************)
(* State                                                                   *)
(***************************************************************************)
VARIABLES
    users,            \* ids of the documents of the User collection
    role,             \* User.role (name of the referenced UserRole)
    branch,           \* User.branch
    assignedBranches, \* User.assignedBranches, an array of branch ids
    reportingTo,      \* User.reportingTo, Null or an id
    updatedBy,        \* User.updatedBy, Null or an id
    isDeleted,        \* User.isDeleted
    isActive,         \* User.isActive
    canLogin,         \* User.canLogin
    lastLogin,        \* User.lastLogin, Null or a time
    logins,           \* the UserLogin collection, by the user it belongs to
    now,              \* the clock read by new Date() and Date.now()
    inflight,         \* requests that are suspended at an await
    last,             \* the request handled last and its response
    branchAssignmentLogs \* the BranchAssignmentLog collection

vars == <<users, role, branch, assignedBranches, reportingTo, updatedBy,
          isDeleted, isActive, canLogin, lastLogin, logins, now, inflight,
          last, branchAssignmentLogs>>

directory == <<users, role, branch, assignedBranches>>

\* `assignedBranches.map((b) => b._id.toString())`: the ids of the array.
assignedBranchIds(u) ==
    {assignedBranches[u][i] : i \in 1..Len(assignedBranches[u])}

\* An array that holds the ids of S, each once.
RECURSIVE ArrayOf(_)
ArrayOf(S) ==
    IF S = {} THEN << >>
    ELSE LET b == CHOOSE x \in S : TRUE IN <<b>> \o ArrayOf(S \ {b})

\* What the handlers of the reporting hierarchy never touch: the login
\* state of the users, the clock and the requests of other clients.
accounts == <<isActive, canLogin, lastLogin, logins, now, inflight>>

NoChain == << >>
NoTree == [id |-> Null, subordinates |-> {}]

Response(op, id, mgr, actor, status) ==
    [op |-> op, id |-> id, mgr |-> mgr, actor |-> actor, status |-> status,
     chain |-> NoChain, subs |-> {}, tree |-> NoTree]

(***************************************************************************)
(* utils/user.helpers.js                                                   *)
(***************************************************************************)
\* The walk has no bound of its own.  It moves along reportingTo, so a walk
\* that has taken more steps than there are ids is on a cycle that does not
\* hold userId and never leaves it: the call never returns ("hang").
\* A walk that looks at the candidate's own manager only.
CircularWalk_OneHop(userId, current, fuel) ==
    IF current \notin users \/ reportingTo[current] = Null THEN "false"
    ELSE IF reportingTo[current] = userId THEN "true"
    ELSE "false"

RECURSIVE CircularWalk(_, _, _)
CircularWalk(userId, current, fuel) ==
    IF current \notin users \/ reportingTo[current] = Null THEN "false"
    ELSE IF reportingTo[current] = userId THEN "true"
    ELSE IF fuel = 0 THEN "hang"
    ELSE CircularWalk(userId, reportingTo[current], fuel - 1)

\* A check that never finds a loop.
willCreateCircularReporting_Never(userId, reportingToId) == "false"

willCreateCircularReporting(userId, reportingToId) ==
    IF reportingToId = Null THEN "false"
    ELSE CircularWalk(userId, reportingToId, Cardinality(Ids))

(***************************************************************************)
(* controllers/reporting.controller.js: assignReportingAuthority           *)
(***************************************************************************)
isSameBranch(id, mgr) == branch[id] = branch[mgr]

isInAssignedBranches(id, mgr) == branch[id] \in assignedBranchIds(mgr)

\* Step 4: `reportingUser.role?.roleLevel >= user.role?.roleLevel`.
RoleHierarchyRejects(id, mgr) ==
    JsGE(RoleLevel(role[mgr]), RoleLevel(role[id]))

\* Step 5: no shared branch and a manager level above the exempt level.
BranchCheckRejects(id, mgr) ==
    /\ ~isSameBranch(id, mgr)
    /\ ~isInAssignedBranches(id, mgr)
    /\ JsGT(RoleLevel(role[mgr]), BranchExemptLevel)

\* The branch the handler takes, in the order of its checks.
AssignOutcome(id, mgr) ==
    IF id \notin users THEN "TargetNotFound"
    ELSE IF mgr = Null THEN "Cleared"
    ELSE IF mgr \notin users THEN "ManagerNotFound"
    ELSE IF id = mgr THEN "SelfReport"
    ELSE IF willCreateCircularReporting(id, mgr) = "hang" THEN "NoResponse"
    ELSE IF willCreateCircularReporting(id, mgr) = "true" THEN "Circular"
    ELSE IF RoleHierarchyRejects(id, mgr) THEN "Seniority"
    ELSE IF BranchCheckRejects(id, mgr) THEN "BranchScope"
    ELSE "Assigned"

\* A handler that cascades: it also stamps the users that report to the
\* target as updated.
AssignReportingAuthority_Cascade(id, mgr, actor) ==
    LET outcome == AssignOutcome(id, mgr) IN
    /\ IF outcome \in {"Cleared", "Assigned"}
       THEN /\ reportingTo' = [reportingTo EXCEPT ![id] = mgr]
            /\ updatedBy' = [u \in Ids |->
                                IF u = id \/ (u \in users /\ reportingTo[u] = id)
                                THEN actor ELSE updatedBy[u]]
       ELSE UNCHANGED <<reportingTo, updatedBy>>
    /\ UNCHANGED branchAssignmentLogs
    /\ last' = Response("assign", id, mgr, actor, outcome)
    /\ UNCHANGED <<directory, accounts, isDeleted>>

\* A handler that stores no acting user (`loggedInUser?._id || null` with
\* the left side lost).
AssignReportingAuthority_NoActor(id, mgr, actor) ==
    LET outcome == AssignOutcome(id, mgr) IN
    /\ IF outcome \in {"Cleared", "Assigned"}
       THEN /\ reportingTo' = [reportingTo EXCEPT ![id] = mgr]
            /\ updatedBy' = [updatedBy EXCEPT ![id] = Null]
       ELSE UNCHANGED <<reportingTo, updatedBy>>
    /\ UNCHANGED branchAssignmentLogs
    /\ last' = Response("assign", id, mgr, actor, outcome)
    /\ UNCHANGED <<directory, accounts, isDeleted>>

AssignReportingAuthority(id, mgr, actor) ==
    LET outcome == AssignOutcome(id, mgr) IN
    /\ IF outcome \in {"Cleared", "Assigned"}
       THEN /\ reportingTo' = [reportingTo EXCEPT ![id] = mgr]
            /\ updatedBy' = [updatedBy EXCEPT ![id] = actor]
       ELSE UNCHANGED <<reportingTo, updatedBy>>
    /\ UNCHANGED branchAssignmentLogs
    /\ last' = Response("assign", id, mgr, actor, outcome)
    /\ UNCHANGED <<directory, accounts, isDeleted>>

(***************************************************************************)
(* assignReportingAuthority, await by await.  Every `await` of the handler *)
(* and of willCreateCircularReporting is a point where the request is      *)
(* suspended and other requests run; one step is the database operation    *)
(* that was awaited and the code up to the next await.  The documents a    *)
(* request has read stay in its memory as they were read.                  *)
(***************************************************************************)
\* Number of requests that are in progress at the same time.
NumRequests == 2

Requests == 1..NumRequests

\* The local variables of a suspended request: `user`, `reportingUser` as
\* populated when they were read, and the value of current.reportingTo.
Suspended(pc, id, mgr, actor) ==
    [pc |-> pc, id |-> id, mgr |-> mgr, actor |-> actor,
     userLevel |-> Undefined, userBranch |-> NoValue,
     mgrLevel |-> Undefined, mgrBranch |-> NoValue, mgrAssigned |-> {},
     cur |-> Null]

Suspend(r, req) ==
    /\ inflight' = [q \in (DOMAIN inflight) \cup {r} |->
                       IF q = r THEN req ELSE inflight[q]]
    /\ UNCHANGED <<last, branchAssignmentLogs>>

\* The handler returns or throws: the response is sent.
Finish(r, req, outcome) ==
    /\ inflight' = [q \in (DOMAIN inflight) \cup {r} |->
                       IF q = r THEN [req EXCEPT !.pc = "done"]
                       ELSE inflight[q]]
    /\ UNCHANGED branchAssignmentLogs
    /\ last' = Response("assign", req.id, req.mgr, req.actor, outcome)

\* Steps 4 and 5 on the documents in the request's memory.
ChecksOutcome(req) ==
    IF JsGE(req.mgrLevel, req.userLevel) THEN "Seniority"
    ELSE IF /\ req.userBranch # req.mgrBranch
            /\ req.userBranch \notin req.mgrAssigned
            /\ JsGT(req.mgrLevel, BranchExemptLevel) THEN "BranchScope"
    ELSE "Assigned"

\* The loop of willCreateCircularReporting once `current` has been read,
\* with cur the reportingTo of `current` (Null when current is null), and
\* the handler up to its next await.
AfterRead(r, req, cur) ==
    IF cur = Null
    THEN IF ChecksOutcome(req) = "Assigned"
         THEN Suspend(r, [req EXCEPT !.pc = "save", !.cur = Null])
         ELSE Finish(r, req, ChecksOutcome(req))
    ELSE IF cur = req.id THEN Finish(r, req, "Circular")
    ELSE Suspend(r, [req EXCEPT !.pc = "walk", !.cur = cur])

\* Step 1: `await User.findById(id)`, then the start of step 2 or 3.
AssignFindTarget(r, id, mgr, actor) ==
    /\ r \notin DOMAIN inflight
    /\ IF id \notin users
       THEN Finish(r, Suspended("findTarget", id, mgr, actor), "TargetNotFound")
       ELSE Suspend(r, [Suspended(IF mgr = Null THEN "save" ELSE "findManager",
                                  id, mgr, actor)
                          EXCEPT !.userLevel = RoleLevel(role[id]),
                                 !.userBranch = branch[id]])
    /\ UNCHANGED <<directory, reportingTo, updatedBy, isDeleted, isActive,
                   canLogin, lastLogin, logins, now>>

\* Step 3: `await User.findById(reportingToId)`, the self-report test and
\* the call of willCreateCircularReporting up to its first await.
AssignFindManager(r) ==
    /\ r \in DOMAIN inflight
    /\ inflight[r].pc = "findManager"
    /\ LET req == inflight[r] IN
       IF req.mgr \notin users THEN Finish(r, req, "ManagerNotFound")
       ELSE IF req.id = req.mgr THEN Finish(r, req, "SelfReport")
       ELSE Suspend(r, [req EXCEPT !.pc = "walkStart",
                                   !.mgrLevel = RoleLevel(role[req.mgr]),
                                   !.mgrBranch = branch[req.mgr],
                                   !.mgrAssigned = assignedBranchIds(req.mgr)])
    /\ UNCHANGED <<directory, reportingTo, updatedBy, isDeleted, isActive,
                   canLogin, lastLogin, logins, now>>

\* `current = await User.findById(reportingToId).select("reportingTo")`.
AssignWalkStart(r) ==
    /\ r \in DOMAIN inflight
    /\ inflight[r].pc = "walkStart"
    /\ LET req == inflight[r] IN
       AfterRead(r, req, IF req.mgr \in users THEN reportingTo[req.mgr] ELSE Null)
    /\ UNCHANGED <<directory, reportingTo, updatedBy, isDeleted, isActive,
                   canLogin, lastLogin, logins, now>>

\* `current = await User.findById(current.reportingTo).select(...)`.
AssignWalkStep(r) ==
    /\ r \in DOMAIN inflight
    /\ inflight[r].pc = "walk"
    /\ LET req == inflight[r] IN
       AfterRead(r, req, IF req.cur \in users THEN reportingTo[req.cur] ELSE Null)
    /\ UNCHANGED <<directory, reportingTo, updatedBy, isDeleted, isActive,
                   canLogin, lastLogin, logins, now>>

\* `await user.save()` of step 2 or step 6: the two modified paths of the
\* target are written, whatever the document holds by now.
AssignSave(r) ==
    /\ r \in DOMAIN inflight
    /\ inflight[r].pc = "save"
    /\ LET req == inflight[r] IN
       /\ reportingTo' = [reportingTo EXCEPT ![req.id] = req.mgr]
       /\ updatedBy' = [updatedBy EXCEPT ![req.id] = req.actor]
       /\ Finish(r, req, IF req.mgr = Null THEN "Cleared" ELSE "Assigned")
    /\ UNCHANGED <<directory, isDeleted, isActive, canLogin, lastLogin,
                   logins, now>>

(***************************************************************************)
(* controllers/reporting.controller.js: removeReportingAuthority           *)
(***************************************************************************)
\* req.user is set by the authentication middleware; the handler reads the
\* level of the acting user's role from it.
ActorRoleLevel(actor) == RoleLevel(role[actor])

\* populate("reportingTo") leaves null when the referenced user is missing.
PopulatedReportingTo(id) ==
    IF reportingTo[id] \in users THEN reportingTo[id] ELSE Null

RemoveOutcome(id, actor) ==
    IF id \notin users THEN "TargetNotFound"
    ELSE IF PopulatedReportingTo(id) = Null THEN "NothingToRemove"
    ELSE IF JsGT(ActorRoleLevel(actor), RemoveMaxLevel) THEN "Forbidden"
    ELSE "Removed"

RemoveReportingAuthority(id, actor) ==
    LET outcome == RemoveOutcome(id, actor) IN
    /\ IF outcome = "Removed"
       THEN /\ reportingTo' = [reportingTo EXCEPT ![id] = Null]
            /\ updatedBy' = [updatedBy EXCEPT ![id] = actor]
       ELSE UNCHANGED <<reportingTo, updatedBy>>
    /\ UNCHANGED branchAssignmentLogs
    /\ last' = Response("remove", id, Null, actor, outcome)
    /\ UNCHANGED <<directory, accounts, isDeleted>>

(***************************************************************************)
(* controllers/assignReporting.controller.js: assignReportingTo            *)
(* (POST /assign-reporting, no authentication middleware on the route)     *)
(***************************************************************************)
AssignReportingToOutcome(userId, reportingToId) ==
    IF userId = Null \/ reportingToId = Null THEN "Required"
    ELSE IF userId = reportingToId THEN "SelfReport"
    ELSE IF userId \notin users THEN "TargetNotFound"
    ELSE IF reportingToId \notin users THEN "ManagerNotFound"
    ELSE IF reportingTo[reportingToId] = userId THEN "Circular"
    ELSE "Assigned"

AssignReportingTo(userId, reportingToId) ==
    LET outcome == AssignReportingToOutcome(userId, reportingToId) IN
    /\ IF outcome = "Assigned"
       THEN reportingTo' = [reportingTo EXCEPT ![userId] = reportingToId]
       ELSE UNCHANGED reportingTo
    /\ UNCHANGED branchAssignmentLogs
    /\ last' = Response("assignReportingTo", userId, reportingToId, Null, outcome)
    /\ UNCHANGED <<directory, accounts, updatedBy, isDeleted>>

(***************************************************************************)
(* models/userLogin.model.js                                               *)
(***************************************************************************)
\* maxAllowedDevices: { default: 2 }.
MaxAllowedDevices == 2

\* The pre-save hook stores bcrypt.hash(password), never the password.
Hash(password) == <<"bcrypt", password>>

\* bcrypt.compare(candidate, hash).
Compare(candidate, hashed) == hashed = Hash(candidate)

\* username: { lowercase: true } and the toLowerCase() of the handlers.
ToLowerCase(s) ==
    CASE s = "U1" -> "u1"
      [] s = "U2" -> "u2"
      [] OTHER    -> s

\* UserLogin.create({ user, username, password }) with the schema defaults.
NewLogin(username, password) ==
    [username            |-> ToLowerCase(username),
     password            |-> Hash(password),
     failedLoginAttempts |-> 0,
     lockLevel           |-> 0,
     lockUntil           |-> Null,
     isPermanentlyLocked |-> FALSE,
     isLoggedIn          |-> FALSE,
     loggedInDevices     |-> << >>,
     maxAllowedDevices   |-> MaxAllowedDevices]

(***************************************************************************)
(* controllers/user.controllers.js: registerUser.  The fields of the       *)
(* request that the model does not hold (userId, fullName, email, phoneNo) *)
(* are present and unused by any other user.                               *)
(***************************************************************************)
\* The roles whose permissions grant "create_user".
CreatorRoles == {"user", "administrator", "superadmin"}

hasCreatePermission(actor) == role[actor] \in CreatorRoles

\* UserRole.findOne({ roleName: "user" }): the role of every new user.
DefaultRoleName == "user"

\* finalBranch: the actor's only assigned branch, the branch of the request
\* when the actor has several, the actor's own branch when it has none.
FinalBranch(actor, newBranch) ==
    IF Len(assignedBranches[actor]) = 1 THEN assignedBranches[actor][1]
    ELSE IF Len(assignedBranches[actor]) > 1 THEN newBranch
    ELSE branch[actor]

\* `loginAllowed && finalRoleName !== "user"`.
CreatesLogin(loginAllowed) == loginAllowed /\ DefaultRoleName # "user"

\* User.create gives the new document an _id that no document has.
NewUserId == CHOOSE id \in Ids \ users : \A other \in Ids \ users : id <= other

\* The outcomes "UsernameRequired", "PasswordRequired" and
\* "DuplicateUsername" are thrown after User.create: the user exists.
RegisterOutcome(actor, newBranch, loginAllowed, username, password) ==
    IF actor \notin users THEN "InvalidActor"
    ELSE IF ~hasCreatePermission(actor) THEN "Forbidden"
    ELSE IF FinalBranch(actor, newBranch) = NoValue THEN "BranchRequired"
    ELSE IF /\ FinalBranch(actor, newBranch) \notin assignedBranchIds(actor)
            /\ FinalBranch(actor, newBranch) # branch[actor]
         THEN "BranchForbidden"
    ELSE IF CreatesLogin(loginAllowed) /\ username = NoValue
         THEN "UsernameRequired"
    ELSE IF CreatesLogin(loginAllowed) /\ password = NoValue
         THEN "PasswordRequired"
    ELSE IF /\ CreatesLogin(loginAllowed)
            /\ \E u \in DOMAIN logins :
                   logins[u].username = ToLowerCase(username)
         THEN "DuplicateUsername"
    ELSE "Registered"

registerUser(actor, newBranch, loginAllowed, active, username, password) ==
    LET outcome == RegisterOutcome(actor, newBranch, loginAllowed, username,
                                   password)
        id == NewUserId
        created == outcome \in {"UsernameRequired", "PasswordRequired",
                                "DuplicateUsername", "Registered"}
    IN
    /\ users # Ids
    /\ IF created
       THEN /\ users' = users \cup {id}
            /\ role' = [role EXCEPT ![id] = DefaultRoleName]
            /\ branch' = [branch EXCEPT ![id] = FinalBranch(actor, newBranch)]
            /\ assignedBranches' =
                   [assignedBranches EXCEPT
                      ![id] = <<FinalBranch(actor, newBranch)>>]
            /\ canLogin' = [canLogin EXCEPT ![id] = loginAllowed]
            /\ isActive' = [isActive EXCEPT ![id] = active]
            /\ isDeleted' = [isDeleted EXCEPT ![id] = FALSE]
            /\ reportingTo' = [reportingTo EXCEPT ![id] = Null]
            /\ lastLogin' = [lastLogin EXCEPT ![id] = Null]
       ELSE UNCHANGED <<directory, canLogin, isActive, isDeleted, reportingTo,
                        lastLogin>>
    /\ logins' =
           IF outcome = "Registered" /\ CreatesLogin(loginAllowed)
           THEN [u \in (DOMAIN logins) \cup {id} |->
                   IF u = id THEN NewLogin(username, password) ELSE logins[u]]
           ELSE logins
    /\ UNCHANGED branchAssignmentLogs
    /\ last' = Response("register", IF created THEN id ELSE Null, Null, actor,
                        outcome)
    /\ UNCHANGED <<updatedBy, now, inflight>>

(***************************************************************************)
(* controllers/user.controllers.js: deleteUser, restoreUser                *)
(***************************************************************************)
\* Both look the target up with the isDeleted filter and require the
\* target's branch among the acting user's assignedBranches.
DeleteOutcome(id, actor) ==
    IF id \notin users \/ isDeleted[id] THEN "TargetNotFound"
    ELSE IF branch[id] \notin assignedBranchIds(actor) THEN "Forbidden"
    ELSE "Deleted"

\* UserLogin.deleteOne({ user }): the collection without that user's record.
DeleteLogin(u) == [v \in (DOMAIN logins) \ {u} |-> logins[v]]

deleteUser(id, actor) ==
    LET outcome == DeleteOutcome(id, actor) IN
    /\ IF outcome = "Deleted"
       THEN /\ isDeleted' = [isDeleted EXCEPT ![id] = TRUE]
            /\ logins' = DeleteLogin(id)
       ELSE UNCHANGED <<isDeleted, logins>>
    /\ UNCHANGED branchAssignmentLogs
    /\ last' = Response("delete", id, Null, actor, outcome)
    /\ UNCHANGED <<directory, reportingTo, updatedBy, isActive, canLogin,
                   lastLogin, now, inflight>>

RestoreOutcome(id, actor) ==
    IF id \notin users \/ ~isDeleted[id] THEN "TargetNotFound"
    ELSE IF branch[id] \notin assignedBranchIds(actor) THEN "Forbidden"
    ELSE "Restored"

restoreUser(id, actor) ==
    LET outcome == RestoreOutcome(id, actor) IN
    /\ IF outcome = "Restored"
       THEN isDeleted' = [isDeleted EXCEPT ![id] = FALSE]
       ELSE UNCHANGED isDeleted
    /\ UNCHANGED branchAssignmentLogs
    /\ last' = Response("restore", id, Null, actor, outcome)
    /\ UNCHANGED <<directory, accounts, reportingTo, updatedBy>>

(***************************************************************************)
(* controllers/user.controllers.js: updateUser                             *)
(***************************************************************************)
isAdmin(actor) == role[actor] = "administrator"

hasBranchAccess(id, actor) ==
    branch[id] \in assignedBranchIds(actor) \/ branch[actor] = branch[id]

isReportingToUser(id, actor) == PopulatedReportingTo(id) = actor

hasAccessToNewBranch(newBranch, actor) ==
    newBranch \in assignedBranchIds(actor) \/ isAdmin(actor)

\* The unique index on UserLogin.username refuses a second record with it.
UsernameTaken(id, username) ==
    \E other \in (DOMAIN logins) \ {id} :
        logins[other].username = ToLowerCase(username)

\* wantLogin is `canLogin === true || canLogin === "true"`.
UpdateOutcome(id, actor, newBranch, newRole, wantLogin, username, password) ==
    IF actor \notin users THEN "InvalidActor"
    ELSE IF id \notin users \/ isDeleted[id] THEN "TargetNotFound"
    ELSE IF /\ ~isAdmin(actor)
            /\ ~hasBranchAccess(id, actor)
            /\ ~isReportingToUser(id, actor) THEN "Forbidden"
    ELSE IF newBranch # NoValue /\ ~hasAccessToNewBranch(newBranch, actor)
         THEN "BranchForbidden"
    ELSE IF wantLogin /\ username = NoValue THEN "UsernameRequired"
    ELSE IF wantLogin /\ password = NoValue /\ id \notin DOMAIN logins
         THEN "PasswordRequired"
    ELSE IF wantLogin /\ UsernameTaken(id, username) THEN "DuplicateUsername"
    ELSE "Updated"

\* The login record of the user after the "Handle Login Logic" part.
UpdatedLogins(id, wantLogin, username, password) ==
    IF ~wantLogin THEN DeleteLogin(id)
    ELSE IF id \in DOMAIN logins
    THEN [logins EXCEPT
            ![id].username = ToLowerCase(username),
            ![id].password = IF password # NoValue THEN Hash(password) ELSE @]
    ELSE [u \in (DOMAIN logins) \cup {id} |->
            IF u = id THEN NewLogin(username, password) ELSE logins[u]]

updateUser(id, actor, newBranch, newRole, wantLogin, username, password) ==
    LET outcome == UpdateOutcome(id, actor, newBranch, newRole, wantLogin,
                                 username, password) IN
    /\ IF outcome = "Updated"
       THEN /\ branch' = IF newBranch # NoValue
                         THEN [branch EXCEPT ![id] = newBranch] ELSE branch
            /\ assignedBranches' =
                   IF newBranch # NoValue /\ newBranch \notin assignedBranchIds(id)
                   THEN [assignedBranches EXCEPT ![id] = Append(@, newBranch)]
                   ELSE assignedBranches
            /\ role' = IF newRole # NoValue
                       THEN [role EXCEPT ![id] = newRole] ELSE role
            /\ canLogin' = [canLogin EXCEPT ![id] = wantLogin]
            /\ logins' = UpdatedLogins(id, wantLogin, username, password)
            /\ updatedBy' = [updatedBy EXCEPT ![id] = actor]
       ELSE UNCHANGED <<branch, assignedBranches, role, canLogin, logins,
                        updatedBy>>
    /\ UNCHANGED branchAssignmentLogs
    /\ last' = Response("update", id, Null, actor, outcome)
    /\ UNCHANGED <<users, reportingTo, isDeleted, isActive, lastLogin, now,
                   inflight>>

(***************************************************************************)
(* services/branchAssignment.service.js: updateUserBranches, called by     *)
(* assignBranchesToUser and removeAssignedBranchesFromUser                 *)
(***************************************************************************)
\* The documents of the Branch collection.
BranchDocs == Branches

\* The ids of an array of the request.
IdsOf(branchIds) == {branchIds[i] : i \in 1..Len(branchIds)}

\* `validBranchIds.filter((id) => current.includes(id.toString()))`.
alreadyAssigned(current, branchIds) ==
    SelectSeq(branchIds, LAMBDA id : id \in IdsOf(current))

\* `validBranchIds.filter((id) => !alreadyAssigned.includes(id))`.
newBranches(current, branchIds) ==
    SelectSeq(branchIds,
              LAMBDA id : id \notin IdsOf(alreadyAssigned(current, branchIds)))

\* `user.assignedBranches.filter((b) => !branchesToRemove.includes(...))`.
WithoutBranches(current, branchIds) ==
    SelectSeq(current,
              LAMBDA b : b \notin IdsOf(alreadyAssigned(current, branchIds)))

\* What a call answers and the array it saves for a user that was found.
BranchesResult(current, branchIds, action) ==
    IF Len(branchIds) = 0
    THEN [status |-> "Required", assigned |-> current]
    ELSE IF IdsOf(branchIds) \cap BranchDocs = {}
    THEN [status |-> "NoBranches", assigned |-> current]
    ELSE IF action = "assign"
    THEN IF Len(newBranches(current, branchIds)) = 0
         THEN [status |-> "AlreadyAssigned", assigned |-> current]
         ELSE [status |-> "BranchesAssigned",
               assigned |-> current \o newBranches(current, branchIds)]
    ELSE IF action = "remove"
    THEN IF Len(alreadyAssigned(current, branchIds)) = 0
         THEN [status |-> "NotAssigned", assigned |-> current]
         ELSE [status |-> "BranchesRemoved",
               assigned |-> WithoutBranches(current, branchIds)]
    ELSE [status |-> "InvalidAction", assigned |-> current]

BranchesOutcome(userId, branchIds, action) ==
    IF userId = Null \/ Len(branchIds) = 0 THEN "Required"
    ELSE IF userId \notin users THEN "UserNotFound"
    ELSE BranchesResult(assignedBranches[userId], branchIds, action).status

BranchResponse(action, userId, branchIds, status) ==
    [op |-> action, id |-> userId, mgr |-> Null, actor |-> Null,
     status |-> status, chain |-> NoChain, subs |-> {}, tree |-> NoTree,
     branchIds |-> branchIds]

updateUserBranches(userId, branchIds, action) ==
    LET outcome == BranchesOutcome(userId, branchIds, action) IN
    /\ assignedBranches' =
           IF outcome \in {"BranchesAssigned", "BranchesRemoved"}
           THEN [assignedBranches EXCEPT
                    ![userId] = BranchesResult(@, branchIds, action).assigned]
           ELSE assignedBranches
    /\ UNCHANGED branchAssignmentLogs
    /\ last' = BranchResponse(action, userId, branchIds, outcome)
    /\ UNCHANGED <<users, role, branch, reportingTo, updatedBy, isDeleted,
                   accounts>>

(***************************************************************************)
(* controllers/reporting.controller.js: getReportingChainUp                *)
(***************************************************************************)
\* One entry of the chain: the projection pushed for a manager.
ChainEntry(m) == [id |-> m, role |-> role[m], branch |-> branch[m]]

\* The while loop from `current`, a document that was found.  done = FALSE
\* is a loop that never ends (more managers pushed than there are ids).
\* A walk that puts each manager in front of the chain.
RECURSIVE ChainWalk_Prepend(_, _, _)
ChainWalk_Prepend(current, chain, fuel) ==
    IF reportingTo[current] = Null THEN [done |-> TRUE, chain |-> chain]
    ELSE IF reportingTo[current] \notin users THEN [done |-> TRUE, chain |-> chain]
    ELSE IF fuel = 0 THEN [done |-> FALSE, chain |-> chain]
    ELSE ChainWalk_Prepend(reportingTo[current],
                           <<ChainEntry(reportingTo[current])>> \o chain,
                           fuel - 1)

\* A walk that gives up, instead of stopping, at a manager that is missing.
RECURSIVE ChainWalk_FailOnDangling(_, _, _)
ChainWalk_FailOnDangling(current, chain, fuel) ==
    IF reportingTo[current] = Null THEN [done |-> TRUE, chain |-> chain]
    ELSE IF reportingTo[current] \notin users THEN [done |-> FALSE, chain |-> chain]
    ELSE IF fuel = 0 THEN [done |-> FALSE, chain |-> chain]
    ELSE ChainWalk_FailOnDangling(reportingTo[current],
                                  Append(chain, ChainEntry(reportingTo[current])),
                                  fuel - 1)

RECURSIVE ChainWalk(_, _, _)
ChainWalk(current, chain, fuel) ==
    IF reportingTo[current] = Null THEN [done |-> TRUE, chain |-> chain]
    ELSE IF reportingTo[current] \notin users THEN [done |-> TRUE, chain |-> chain]
    ELSE IF fuel = 0 THEN [done |-> FALSE, chain |-> chain]
    ELSE ChainWalk(reportingTo[current],
                   Append(chain, ChainEntry(reportingTo[current])), fuel - 1)

\* The response of getReportingChainUp(id).
ChainResponse(id) ==
    LET walk == IF id \in users THEN ChainWalk(id, << >>, Cardinality(Ids))
                ELSE [done |-> TRUE, chain |-> << >>]
        outcome == IF id \notin users THEN "TargetNotFound"
                   ELSE IF walk.done THEN "Chain" ELSE "NoResponse"
    IN [Response("chainUp", id, Null, Null, outcome)
          EXCEPT !.chain = IF outcome = "Chain" THEN walk.chain ELSE << >>]

getReportingChainUp(id) ==
    /\ UNCHANGED branchAssignmentLogs
    /\ last' = ChainResponse(id)
    /\ UNCHANGED <<directory, accounts, reportingTo, updatedBy, isDeleted>>

(***************************************************************************)
(* controllers/reporting.controller.js: getSubordinates                    *)
(***************************************************************************)
\* $graphLookup from `frontier` (values of _id) to the documents whose
\* reportingTo equals one of them; a document is returned once, with the
\* depth at which it was first found.
RECURSIVE GraphLookup(_, _, _)
GraphLookup(frontier, found, depth) ==
    LET seen == {f.id : f \in found}
        next == {u \in users : reportingTo[u] \in frontier /\ u \notin seen}
    IN IF next = {} THEN found
       ELSE GraphLookup(next,
                        found \cup {[id |-> u, level |-> depth] : u \in next},
                        depth + 1)

getSubordinates(id) ==
    LET outcome == IF id \in users THEN "Subordinates" ELSE "TargetNotFound" IN
    /\ UNCHANGED branchAssignmentLogs
    /\ last' = [Response("subordinates", id, Null, Null, outcome)
                  EXCEPT !.subs = IF id \in users
                                  THEN GraphLookup({id}, {}, 0) ELSE {}]
    /\ UNCHANGED <<directory, accounts, reportingTo, updatedBy, isDeleted>>

(***************************************************************************)
(* controllers/reporting.controller.js: buildHierarchy, getUserHierarchy   *)
(***************************************************************************)
\* The recursion has no visited set: it ends iff no cycle of reportingTo is
\* met below userId, that is iff it ends within as many levels as ids.
RECURSIVE HierarchyEnds(_, _)
HierarchyEnds(userId, fuel) ==
    \/ userId \notin users
    \/ /\ fuel > 0
       /\ \A sub \in {u \in users : reportingTo[u] = userId} :
              HierarchyEnds(sub, fuel - 1)

RECURSIVE buildHierarchy(_)
buildHierarchy(userId) ==
    IF userId \notin users THEN NoTree
    ELSE [id |-> userId,
          subordinates |->
              {buildHierarchy(sub) :
                   sub \in {u \in users : reportingTo[u] = userId}} \ {NoTree}]

getUserHierarchy(id) ==
    LET outcome == IF id \notin users THEN "TargetNotFound"
                   ELSE IF HierarchyEnds(id, Cardinality(Ids)) THEN "Hierarchy"
                   ELSE "NoResponse"
    IN
    /\ UNCHANGED branchAssignmentLogs
    /\ last' = [Response("hierarchy", id, Null, Null, outcome)
                  EXCEPT !.tree = IF outcome = "Hierarchy"
                                  THEN buildHierarchy(id) ELSE NoTree]
    /\ UNCHANGED <<directory, accounts, reportingTo, updatedBy, isDeleted>>

(***************************************************************************)
(* controllers/user.controllers.js: toggleUserStatus                       *)
(***************************************************************************)
ToggleOutcome(id, actor) ==
    IF actor \notin users THEN "InvalidActor"
    ELSE IF id \notin users \/ isDeleted[id] THEN "TargetNotFound"
    ELSE IF branch[id] \notin assignedBranchIds(actor) THEN "Forbidden"
    ELSE "Toggled"

toggleUserStatus(id, actor) ==
    LET outcome == ToggleOutcome(id, actor) IN
    /\ IF outcome = "Toggled"
       THEN /\ isActive' = [isActive EXCEPT ![id] = ~@]
            /\ updatedBy' = [updatedBy EXCEPT ![id] = actor]
       ELSE UNCHANGED <<isActive, updatedBy>>
    /\ UNCHANGED branchAssignmentLogs
    /\ last' = Response("toggle", id, Null, actor, outcome)
    /\ UNCHANGED <<directory, reportingTo, isDeleted, canLogin, lastLogin,
                   logins, now, inflight>>

(***************************************************************************)
(* controllers/auth.controllers.js: loginUser                              *)
(***************************************************************************)
\* Clock ticks in a minute: the grain of new Date() in the model.
TicksPerMinute == 2

\* The last tick of the clock.
MaxTime == 20

\* The clock advances between two requests.
Tick ==
    /\ now < MaxTime
    /\ now' = now + 1
    /\ UNCHANGED <<directory, reportingTo, updatedBy, isDeleted, isActive,
                   canLogin, lastLogin, logins, inflight, last,
                   branchAssignmentLogs>>

\* The request and the response of a handler of the auth routes.
AuthResponse(op, username, password, deviceId, ipAddress, userAgent, status) ==
    [op |-> op, username |-> username, password |-> password,
     deviceId |-> deviceId, ipAddress |-> ipAddress, userAgent |-> userAgent,
     status |-> status]

\* UserLogin.findOne({ username: username.toLowerCase() }): the users whose
\* record has that username (none or one, the index is unique).
FindLogin(username) ==
    {u \in DOMAIN logins : logins[u].username = ToLowerCase(username)}

\* A switch that locks for one minute at every level.
LockMinutes_Flat(level) ==
    CASE level \in {1, 2, 3} -> 1
      [] OTHER              -> 0

\* The switch on the new lock level: minutes of the temporary lock.
LockMinutes(level) ==
    CASE level = 1 -> 1
      [] level = 2 -> 3
      [] level = 3 -> 5
      [] OTHER     -> 0

\* A handler that counts the mismatches and never locks.
AfterMismatch_KeepCounting(login) ==
    [login EXCEPT !.failedLoginAttempts = @ + 1]

\* A handler whose fourth lock is one more temporary lock.
AfterMismatch_TemporaryOnly(login) ==
    IF login.failedLoginAttempts + 1 >= 3
    THEN [login EXCEPT
            !.failedLoginAttempts = 0,
            !.lockLevel = @ + 1,
            !.lockUntil = now + LockMinutes(login.lockLevel + 1) * TicksPerMinute]
    ELSE [login EXCEPT !.failedLoginAttempts = @ + 1]

\* A handler that starts again at level 1 once a lock has run out.
AfterMismatch_Restart(login) ==
    IF login.failedLoginAttempts + 1 >= 3
    THEN [login EXCEPT
            !.failedLoginAttempts = 0,
            !.lockLevel = 1,
            !.lockUntil = now + LockMinutes(1) * TicksPerMinute]
    ELSE [login EXCEPT !.failedLoginAttempts = @ + 1]

\* The record after a mismatch, as saved.
AfterMismatch(login) ==
    IF login.failedLoginAttempts + 1 >= 3
    THEN [login EXCEPT
            !.failedLoginAttempts = 0,
            !.lockLevel = @ + 1,
            !.isPermanentlyLocked = (login.lockLevel + 1 \notin {1, 2, 3}),
            !.lockUntil = IF login.lockLevel + 1 \in {1, 2, 3}
                          THEN now + LockMinutes(login.lockLevel + 1) * TicksPerMinute
                          ELSE @]
    ELSE [login EXCEPT !.failedLoginAttempts = @ + 1]

\* "Reset lock info after success", in memory.
ResetLock(login) ==
    [login EXCEPT !.failedLoginAttempts = 0, !.lockLevel = 0,
                  !.lockUntil = Null, !.isPermanentlyLocked = FALSE]

\* uuidv4(): an id that no device of the registry has.
UuidPool == <<"g1", "g2", "g3">>

HasFreshUuid(devices) ==
    \E i \in 1..Len(UuidPool) :
        \A j \in 1..Len(devices) : devices[j].deviceId # UuidPool[i]

Uuid(devices) ==
    LET free == {i \in 1..Len(UuidPool) :
                    \A j \in 1..Len(devices) : devices[j].deviceId # UuidPool[i]}
    IN UuidPool[CHOOSE i \in free : \A k \in free : i <= k]

\* `deviceId || uuidv4()`.
CurrentDeviceId(deviceId, devices) ==
    IF deviceId # NoValue THEN deviceId ELSE Uuid(devices)

\* `req.headers["user-agent"] || "unknown"`.
UserAgentOf(header) == IF header # NoValue THEN header ELSE "unknown"

\* Array.find: the index of the first element that satisfies the test, 0
\* when there is none.
FirstIndex(matching) ==
    IF matching = {} THEN 0 ELSE CHOOSE i \in matching : \A k \in matching : i <= k

\* The device found by id or else by IP address and user agent.
FindDevice(devices, currentDeviceId, ipAddress, userAgent) ==
    LET byId == FirstIndex({i \in 1..Len(devices) :
                               devices[i].deviceId = currentDeviceId})
    IN IF byId # 0 THEN byId
       ELSE FirstIndex({i \in 1..Len(devices) :
                           /\ devices[i].ipAddress = ipAddress
                           /\ devices[i].userAgent = userAgent})

\* A test that takes every device for logged out.
HasOpenSession_Never(device) == FALSE

\* The last entry of the device's loginHistory exists and has no logoutAt.
HasOpenSession(device) ==
    /\ Len(device.loginHistory) > 0
    /\ device.loginHistory[Len(device.loginHistory)].logoutAt = Null

\* `refreshToken: null`: the device stores no token.
NoToken == [id |-> Null, deviceId |-> NoValue, iat |-> Null]

\* jwt.sign({ id, deviceId }, key, { expiresIn }): the claims and the time
\* of issue.
RefreshToken(user, deviceId) == [id |-> user, deviceId |-> deviceId, iat |-> now]

\* The registry after "Device tracking" and the token of the device.
AdmitDevice(user, devices, currentDeviceId, ipAddress, userAgent) ==
    LET i == FindDevice(devices, currentDeviceId, ipAddress, userAgent) IN
    IF i # 0
    THEN [devices EXCEPT
            ![i].loginHistory = Append(@, [loginAt |-> now, logoutAt |-> Null]),
            ![i].loginCount = @ + 1,
            ![i].refreshToken = RefreshToken(user, devices[i].deviceId)]
    ELSE Append(devices,
                [deviceId     |-> currentDeviceId,
                 ipAddress    |-> ipAddress,
                 userAgent    |-> userAgent,
                 loginCount   |-> 1,
                 refreshToken |-> RefreshToken(user, currentDeviceId),
                 loginHistory |-> <<[loginAt |-> now, logoutAt |-> Null]>>])

\* A test that lets requests through during the last tick of the lock.
IsTemporarilyLocked_Early(login) ==
    login.lockUntil # Null /\ login.lockUntil > now + 1

\* `login.lockUntil && login.lockUntil > new Date()`.
IsTemporarilyLocked(login) == login.lockUntil # Null /\ login.lockUntil > now

\* A limit that admits one device too many.
DeviceLimitReached_OffByOne(login) ==
    Len(login.loggedInDevices) > login.maxAllowedDevices

\* `login.loggedInDevices.length >= login.maxAllowedDevices`.
DeviceLimitReached(login) ==
    Len(login.loggedInDevices) >= login.maxAllowedDevices

\* The branch the handler takes, in the order of its checks.
LoginOutcome(username, password, deviceId, ipAddress, userAgent) ==
    IF username = NoValue \/ password = NoValue THEN "Required"
    ELSE IF FindLogin(username) = {} THEN "NotFound"
    ELSE LET u == CHOOSE v \in FindLogin(username) : TRUE
             login == logins[u]
             devices == login.loggedInDevices
             i == FindDevice(devices, CurrentDeviceId(deviceId, devices),
                             ipAddress, UserAgentOf(userAgent))
         IN
         IF u \notin users THEN "UserNotFound"
         ELSE IF ~isActive[u] THEN "Inactive"
         ELSE IF ~canLogin[u] THEN "CannotLogin"
         ELSE IF login.isPermanentlyLocked THEN "AccountLocked"
         ELSE IF IsTemporarilyLocked(login) THEN "TemporarilyLocked"
         ELSE IF ~Compare(password, login.password)
              THEN IF login.failedLoginAttempts + 1 >= 3
                   THEN "LockedOut" ELSE "InvalidCredentials"
         ELSE IF i # 0 /\ HasOpenSession(devices[i]) THEN "AlreadyLoggedIn"
         ELSE IF i = 0 /\ DeviceLimitReached(login) THEN "DeviceLimit"
         ELSE "LoggedIn"

\* A handler that counts a request refused by a lock as one more failure.
SavedLogin_CountRejected(u, outcome, deviceId, ipAddress, userAgent) ==
    IF outcome \in {"InvalidCredentials", "LockedOut", "TemporarilyLocked",
                    "AccountLocked"}
    THEN AfterMismatch(logins[u])
    ELSE IF outcome = "LoggedIn"
    THEN [ResetLock(logins[u]) EXCEPT
            !.loggedInDevices =
                AdmitDevice(u, @, CurrentDeviceId(deviceId, @), ipAddress,
                            UserAgentOf(userAgent)),
            !.isLoggedIn = TRUE]
    ELSE logins[u]

\* A handler that opens one more session for a device that has one open.
SavedLogin_Reopen(u, outcome, deviceId, ipAddress, userAgent) ==
    IF outcome \in {"InvalidCredentials", "LockedOut"}
    THEN AfterMismatch(logins[u])
    ELSE IF outcome \in {"LoggedIn", "AlreadyLoggedIn"}
    THEN [ResetLock(logins[u]) EXCEPT
            !.loggedInDevices =
                AdmitDevice(u, @, CurrentDeviceId(deviceId, @), ipAddress,
                            UserAgentOf(userAgent)),
            !.isLoggedIn = TRUE]
    ELSE logins[u]

\* The record of user u as the handler leaves it in the collection: only
\* the mismatch branches and the end of a login call login.save().
SavedLogin(u, outcome, deviceId, ipAddress, userAgent) ==
    IF outcome \in {"InvalidCredentials", "LockedOut"}
    THEN AfterMismatch(logins[u])
    ELSE IF outcome = "LoggedIn"
    THEN [ResetLock(logins[u]) EXCEPT
            !.loggedInDevices =
                AdmitDevice(u, @, CurrentDeviceId(deviceId, @), ipAddress,
                            UserAgentOf(userAgent)),
            !.isLoggedIn = TRUE]
    ELSE logins[u]

loginUser(username, password, deviceId, ipAddress, userAgent) ==
    LET outcome == LoginOutcome(username, password, deviceId, ipAddress,
                                userAgent)
        u == CHOOSE v \in FindLogin(username) : TRUE
    IN
    /\ (deviceId = NoValue /\ FindLogin(username) # {})
           => HasFreshUuid(logins[u].loggedInDevices)
    /\ logins' = IF FindLogin(username) = {} THEN logins
                 ELSE [logins EXCEPT
                         ![u] = SavedLogin(u, outcome, deviceId, ipAddress,
                                           userAgent)]
    /\ lastLogin' = IF outcome = "LoggedIn"
                    THEN [lastLogin EXCEPT ![u] = now] ELSE lastLogin
    /\ UNCHANGED branchAssignmentLogs
    /\ last' = AuthResponse("login", username, password, deviceId, ipAddress,
                            userAgent, outcome)
    /\ UNCHANGED <<directory, reportingTo, updatedBy, isDeleted, isActive,
                   canLogin, now, inflight>>

(***************************************************************************)
(* controllers/auth.controllers.js: loginUser, await by await.  The        *)
(* handler is suspended at UserLogin.findOne, at bcrypt.compare, at        *)
(* login.save() and at user.save(); the document it read stays in its      *)
(* memory, and save() writes the paths the handler modified to the         *)
(* document with that _id, whatever the collection holds by then.          *)
(***************************************************************************)
\* The local variables of a suspended login request: the request, the user
\* found, `login` as it was read and as the handler changed it.
SuspendedLogin(pc, username, password, deviceId, ipAddress, userAgent) ==
    [pc |-> pc, username |-> username, password |-> password,
     deviceId |-> deviceId, ipAddress |-> ipAddress, userAgent |-> userAgent,
     user |-> Null, read |-> NewLogin(NoValue, NoValue),
     login |-> NewLogin(NoValue, NoValue), device |-> 0, outcome |-> NoValue]

SuspendLogin(r, req) ==
    /\ inflight' = [q \in (DOMAIN inflight) \cup {r} |->
                       IF q = r THEN req ELSE inflight[q]]
    /\ UNCHANGED <<last, branchAssignmentLogs>>

\* The handler returns: the response is sent.
FinishLogin(r, req, outcome) ==
    /\ inflight' = [q \in (DOMAIN inflight) \cup {r} |->
                       IF q = r THEN [req EXCEPT !.pc = "done",
                                                 !.outcome = outcome]
                       ELSE inflight[q]]
    /\ UNCHANGED branchAssignmentLogs
    /\ last' = AuthResponse("login", req.username, req.password, req.deviceId,
                            req.ipAddress, req.userAgent, outcome)

\* The checks between findOne and bcrypt.compare, on the document read.
EarlyOutcome(u, login) ==
    IF u \notin users THEN "UserNotFound"
    ELSE IF ~isActive[u] THEN "Inactive"
    ELSE IF ~canLogin[u] THEN "CannotLogin"
    ELSE IF login.isPermanentlyLocked THEN "AccountLocked"
    ELSE IF IsTemporarilyLocked(login) THEN "TemporarilyLocked"
    ELSE NoValue

\* `await UserLogin.findOne(...).populate("user")` and the code up to
\* `await bcrypt.compare(...)`.
LoginFindOne(r, username, password, deviceId, ipAddress, userAgent) ==
    LET req == SuspendedLogin("compare", username, password, deviceId,
                              ipAddress, userAgent)
    IN
    /\ r \notin DOMAIN inflight
    /\ IF username = NoValue \/ password = NoValue
       THEN FinishLogin(r, req, "Required")
       ELSE IF FindLogin(username) = {} THEN FinishLogin(r, req, "NotFound")
       ELSE LET u == CHOOSE v \in FindLogin(username) : TRUE IN
            IF EarlyOutcome(u, logins[u]) # NoValue
            THEN FinishLogin(r, req, EarlyOutcome(u, logins[u]))
            ELSE SuspendLogin(r, [req EXCEPT !.user = u,
                                             !.read = logins[u],
                                             !.login = logins[u]])
    /\ UNCHANGED <<directory, reportingTo, updatedBy, isDeleted, isActive,
                   canLogin, lastLogin, logins, now>>

\* bcrypt.compare has answered: the handler changes `login` in memory and
\* runs up to `await login.save()` or to a return.
LoginCompare(r) ==
    /\ r \in DOMAIN inflight
    /\ inflight[r].pc = "compare"
    /\ LET req == inflight[r]
           devices == req.login.loggedInDevices
           current == CurrentDeviceId(req.deviceId, devices)
           i == FindDevice(devices, current, req.ipAddress,
                           UserAgentOf(req.userAgent))
       IN
       /\ req.deviceId = NoValue => HasFreshUuid(devices)
       /\ IF ~Compare(req.password, req.login.password)
          THEN SuspendLogin(r, [req EXCEPT
                   !.pc = "save",
                   !.login = AfterMismatch(req.login),
                   !.outcome = IF req.login.failedLoginAttempts + 1 >= 3
                               THEN "LockedOut" ELSE "InvalidCredentials"])
          ELSE IF i # 0 /\ HasOpenSession(devices[i])
          THEN FinishLogin(r, req, "AlreadyLoggedIn")
          ELSE IF i = 0 /\ DeviceLimitReached(req.login)
          THEN FinishLogin(r, req, "DeviceLimit")
          ELSE SuspendLogin(r, [req EXCEPT
                   !.pc = "save",
                   !.login = [ResetLock(req.login) EXCEPT
                                 !.loggedInDevices =
                                     AdmitDevice(req.user, @, current,
                                                 req.ipAddress,
                                                 UserAgentOf(req.userAgent)),
                                 !.isLoggedIn = TRUE],
                   !.device = i,
                   !.outcome = "LoggedIn"])
    /\ UNCHANGED <<directory, reportingTo, updatedBy, isDeleted, isActive,
                   canLogin, lastLogin, logins, now>>

\* The paths of the lock state and the flag that save() writes: a path is
\* modified when the handler gave it a value other than the one read.
ScalarPaths ==
    {"failedLoginAttempts", "lockLevel", "lockUntil", "isPermanentlyLocked",
     "isLoggedIn"}

\* The stored document after save(): the modified scalar paths are set, a
\* new device is pushed to the stored registry, and the changes to a known
\* device are made to the stored device at its place.
SavedOver(stored, req) ==
    LET scalars == [f \in DOMAIN stored |->
                       IF f \in ScalarPaths /\ req.login[f] # req.read[f]
                       THEN req.login[f] ELSE stored[f]]
        mine == req.login.loggedInDevices
    IN
    IF req.outcome # "LoggedIn" THEN scalars
    ELSE IF req.device = 0
    THEN [scalars EXCEPT !.loggedInDevices = Append(@, mine[Len(mine)])]
    ELSE IF req.device \in 1..Len(stored.loggedInDevices)
    THEN [scalars EXCEPT
            !.loggedInDevices[req.device].loginHistory =
                Append(@, [loginAt |-> mine[req.device].loginHistory[
                                         Len(mine[req.device].loginHistory)].loginAt,
                           logoutAt |-> Null]),
            !.loggedInDevices[req.device].loginCount =
                mine[req.device].loginCount,
            !.loggedInDevices[req.device].refreshToken =
                mine[req.device].refreshToken]
    ELSE scalars

\* `await login.save()`: the update reaches the collection.  A mismatch
\* then answers; a login goes on to `await user.save()`.
LoginSave(r) ==
    /\ r \in DOMAIN inflight
    /\ inflight[r].pc = "save"
    /\ LET req == inflight[r] IN
       IF req.user \notin DOMAIN logins
       THEN /\ FinishLogin(r, req, "InternalError")
            /\ UNCHANGED logins
       ELSE /\ logins' = [logins EXCEPT ![req.user] = SavedOver(@, req)]
            /\ IF req.outcome = "LoggedIn"
               THEN SuspendLogin(r, [req EXCEPT !.pc = "saveUser"])
               ELSE FinishLogin(r, req, req.outcome)
    /\ UNCHANGED <<directory, reportingTo, updatedBy, isDeleted, isActive,
                   canLogin, lastLogin, now>>

\* `await user.save()`: lastLogin is written and the tokens are sent.
LoginSaveUser(r) ==
    /\ r \in DOMAIN inflight
    /\ inflight[r].pc = "saveUser"
    /\ lastLogin' = [lastLogin EXCEPT ![inflight[r].user] = now]
    /\ FinishLogin(r, inflight[r], "LoggedIn")
    /\ UNCHANGED <<directory, reportingTo, updatedBy, isDeleted, isActive,
                   canLogin, logins, now>>

(***************************************************************************)
(* controllers/auth.controllers.js: logoutUser                             *)
(***************************************************************************)
\* 24 * 60 * 60 * 1000 ms, in ticks: closed sessions older than this are
\* dropped from the history.
DayTicks == 24 * 60 * TicksPerMinute

\* UserLogin.findOne(userId ? { user: userId } : { username }).
FindLoginOf(userId, username) ==
    IF userId # Null THEN {u \in DOMAIN logins : u = userId}
    ELSE FindLogin(username)

\* A logout that stamps the session and leaves the token of the device.
CloseDevice_KeepToken(device) ==
    [device EXCEPT
       !.loginHistory =
           IF HasOpenSession(device)
           THEN [@ EXCEPT ![Len(@)].logoutAt = now] ELSE @]

\* The device with its last session stamped and its token cleared.
CloseDevice(device) ==
    [device EXCEPT
       !.loginHistory =
           IF HasOpenSession(device)
           THEN [@ EXCEPT ![Len(@)].logoutAt = now] ELSE @,
       !.refreshToken = NoToken]

\* A filter that drops every session that began more than a day ago.
KeepRecent_ByLoginAt(history) ==
    SelectSeq(history, LAMBDA s : now - s.loginAt < DayTicks)

\* "Clean up stale or expired sessions": Array.filter on one history.
RECURSIVE KeepRecent(_)
KeepRecent(history) ==
    IF history = << >> THEN << >>
    ELSE LET s == Head(history) IN
         IF s.logoutAt = Null \/ now - s.logoutAt < DayTicks
         THEN <<s>> \o KeepRecent(Tail(history))
         ELSE KeepRecent(Tail(history))

\* The request and the response of POST /logout.
LogoutResponse(userId, username, deviceId, status) ==
    [op |-> "logout", userId |-> userId, username |-> username,
     deviceId |-> deviceId, status |-> status]

LogoutOutcome(userId, username, deviceId) ==
    IF (userId = Null /\ username = NoValue) \/ deviceId = NoValue
    THEN "Required"
    ELSE IF FindLoginOf(userId, username) = {} THEN "NotFound"
    ELSE LET u == CHOOSE v \in FindLoginOf(userId, username) : TRUE IN
         IF FirstIndex({i \in 1..Len(logins[u].loggedInDevices) :
                           logins[u].loggedInDevices[i].deviceId = deviceId}) = 0
         THEN "DeviceNotFound"
         ELSE "LoggedOut"

logoutUser(userId, username, deviceId) ==
    LET outcome == LogoutOutcome(userId, username, deviceId)
        u == CHOOSE v \in FindLoginOf(userId, username) : TRUE
        devices == logins[u].loggedInDevices
        i == FirstIndex({j \in 1..Len(devices) : devices[j].deviceId = deviceId})
        closed == [devices EXCEPT ![i] = CloseDevice(@)]
        cleaned == [j \in 1..Len(closed) |->
                       [closed[j] EXCEPT !.loginHistory = KeepRecent(@)]]
    IN
    /\ logins' =
           IF outcome = "LoggedOut"
           THEN [logins EXCEPT
                   ![u].loggedInDevices = cleaned,
                   ![u].isLoggedIn =
                       \E j \in 1..Len(cleaned) :
                           \E k \in 1..Len(cleaned[j].loginHistory) :
                               cleaned[j].loginHistory[k].logoutAt = Null]
           ELSE logins
    /\ UNCHANGED branchAssignmentLogs
    /\ last' = LogoutResponse(userId, username, deviceId, outcome)
    /\ UNCHANGED <<directory, reportingTo, updatedBy, isDeleted, isActive,
                   canLogin, lastLogin, now, inflight>>

(***************************************************************************)
(* controllers/auth.controllers.js: refreshAccessToken                     *)
(***************************************************************************)
\* REFRESH_TOKEN_EXPIRY, "e.g. 7d", in ticks.
RefreshTokenExpiry == 7 * DayTicks

\* jwt.verify(refreshToken, key): the token is one that jwt.sign made with
\* the key (a token made otherwise carries no time of issue here) and it
\* has not expired.
Verifies(token) ==
    /\ token.iat # Null
    /\ now - token.iat < RefreshTokenExpiry

\* A lookup that takes any token this server signed for the device.
TokenMatches_AnySigned(device, deviceId, token) ==
    device.deviceId = deviceId /\ token.deviceId = deviceId

\* `d.deviceId === deviceId && d.refreshToken === refreshToken`.
TokenMatches(device, deviceId, token) ==
    device.deviceId = deviceId /\ device.refreshToken = token

RefreshOutcome(token, deviceId) ==
    IF token = NoToken \/ deviceId = NoValue THEN "Required"
    ELSE IF ~Verifies(token) THEN "InvalidToken"
    ELSE IF token.id \notin DOMAIN logins THEN "NotFound"
    ELSE IF \A i \in 1..Len(logins[token.id].loggedInDevices) :
               ~TokenMatches(logins[token.id].loggedInDevices[i], deviceId, token)
         THEN "Revoked"
    ELSE IF token.id \notin users \/ ~isActive[token.id] THEN "Inactive"
    ELSE "Refreshed"

\* The request and the response of POST /refresh-token.
RefreshResponse(token, deviceId, status) ==
    [op |-> "refresh", token |-> token, deviceId |-> deviceId,
     status |-> status]

refreshAccessToken(token, deviceId) ==
    /\ UNCHANGED branchAssignmentLogs
    /\ last' = RefreshResponse(token, deviceId, RefreshOutcome(token, deviceId))
    /\ UNCHANGED <<directory, reportingTo, updatedBy, isDeleted, isActive,
                   canLogin, lastLogin, logins, now, inflight>>

(***************************************************************************)
(* controllers/auth.controllers.js: reAuthenticateUser                     *)
(***************************************************************************)
\* `login.user` is null when the user document is gone: reading user._id
\* throws and the catch answers 500.
ReAuthOutcome(userId, password) ==
    IF userId = Null \/ password = NoValue THEN "Required"
    ELSE IF userId \notin DOMAIN logins THEN "NotFound"
    ELSE IF ~Compare(password, logins[userId].password)
         THEN "IncorrectPassword"
    ELSE IF userId \notin users THEN "InternalError"
    ELSE "ReAuthenticated"

\* The request and the response of POST /re-authenticate.
ReAuthResponse(userId, password, status) ==
    [op |-> "reauth", userId |-> userId, password |-> password,
     status |-> status]

reAuthenticateUser(userId, password) ==
    /\ UNCHANGED branchAssignmentLogs
    /\ last' = ReAuthResponse(userId, password, ReAuthOutcome(userId, password))
    /\ UNCHANGED <<directory, reportingTo, updatedBy, isDeleted, isActive,
                   canLogin, lastLogin, logins, now, inflight>>

(***************************************************************************)
(* controllers/auth.controllers.js: logoutFromAllDevices,                  *)
(* logoutSelectedUsers, logoutAllBelowUsers                                *)
(***************************************************************************)
\* loginHistory.forEach: every session without logoutAt is stamped.
CloseAll(history) ==
    [k \in 1..Len(history) |->
        IF history[k].logoutAt = Null
        THEN [history[k] EXCEPT !.logoutAt = now] ELSE history[k]]

\* A loop that stamps the sessions and leaves the tokens of the devices.
TerminateLogin_KeepTokens(login) ==
    [login EXCEPT
       !.loggedInDevices =
           [j \in 1..Len(login.loggedInDevices) |->
               [login.loggedInDevices[j] EXCEPT !.loginHistory = CloseAll(@)]],
       !.isLoggedIn = FALSE]

\* A loop that clears the flag of the record and leaves its sessions open.
TerminateLogin_FlagOnly(login) == [login EXCEPT !.isLoggedIn = FALSE]

\* The loop over the devices of one record and its flag, as saved.
TerminateLogin(login) ==
    [login EXCEPT
       !.loggedInDevices =
           [j \in 1..Len(login.loggedInDevices) |->
               [login.loggedInDevices[j] EXCEPT
                   !.loginHistory = CloseAll(@), !.refreshToken = NoToken]],
       !.isLoggedIn = FALSE]

\* The collection after the loop over the records of the target users.
TerminateAll(targets) ==
    [u \in DOMAIN logins |->
        IF u \in targets THEN TerminateLogin(logins[u]) ELSE logins[u]]

\* The request and the response of a bulk termination.
BulkResponse(op, actor, userIds, status) ==
    [op |-> op, actor |-> actor, userIds |-> userIds, status |-> status]

LogoutAllDevicesOutcome(userId, username) ==
    IF userId = Null /\ username = NoValue THEN "Required"
    ELSE IF FindLoginOf(userId, username) = {} THEN "NotFound"
    ELSE "LoggedOutAll"

logoutFromAllDevices(userId, username) ==
    LET outcome == LogoutAllDevicesOutcome(userId, username) IN
    /\ logins' = IF outcome = "LoggedOutAll"
                 THEN TerminateAll(FindLoginOf(userId, username)) ELSE logins
    /\ UNCHANGED branchAssignmentLogs
    /\ last' = BulkResponse("logoutfromall", Null,
                            FindLoginOf(userId, username), outcome)
    /\ UNCHANGED <<directory, reportingTo, updatedBy, isDeleted, isActive,
                   canLogin, lastLogin, now, inflight>>

\* `actor.role.level`: the rank that this controller reads from the role.
Level(u) == RoleLevel(role[u])

\* canLogout(actorLevel, targetLevel): the target's rank is strictly junior
\* to the actor's (a larger number is junior).
canLogout(actorLevel, targetLevel) == JsGT(targetLevel, actorLevel)

\* A filter that takes every user named in the request but the actor.
ValidTargets_Everyone(userIds, actor) ==
    {u \in userIds \cap users : u # actor}

\* targetUsers.filter(canLogout(...) && u._id.toString() !== actorId).
ValidTargets(userIds, actor) ==
    {u \in userIds \cap users : canLogout(Level(actor), Level(u)) /\ u # actor}

SelectedOutcome(userIds, actor) ==
    IF userIds = {} THEN "Required"
    ELSE IF actor \notin users THEN "ActorNotFound"
    ELSE IF ValidTargets(userIds, actor) = {} THEN "Forbidden"
    ELSE "LoggedOutSelected"

logoutSelectedUsers(userIds, actor) ==
    LET outcome == SelectedOutcome(userIds, actor) IN
    /\ logins' = IF outcome = "LoggedOutSelected"
                 THEN TerminateAll(ValidTargets(userIds, actor)) ELSE logins
    /\ UNCHANGED branchAssignmentLogs
    /\ last' = BulkResponse("logout-multiple", actor, userIds, outcome)
    /\ UNCHANGED <<directory, reportingTo, updatedBy, isDeleted, isActive,
                   canLogin, lastLogin, now, inflight>>

\* `actorLevel > 2`: above it the global logout is refused.
GlobalLogoutMaxLevel == 2

\* User.find({ _id: { $ne: actorId } }) filtered by canLogout.
BelowTargets(actor) ==
    {u \in users \ {actor} : canLogout(Level(actor), Level(u))}

BelowOutcome(actor) ==
    IF actor \notin users THEN "ActorNotFound"
    ELSE IF JsGT(Level(actor), GlobalLogoutMaxLevel) THEN "Forbidden"
    ELSE "LoggedOutBelow"

logoutAllBelowUsers(actor) ==
    LET outcome == BelowOutcome(actor) IN
    /\ logins' = IF outcome = "LoggedOutBelow"
                 THEN TerminateAll(BelowTargets(actor)) ELSE logins
    /\ UNCHANGED branchAssignmentLogs
    /\ last' = BulkResponse("logout-all", actor,
                            IF actor \in users THEN BelowTargets(actor) ELSE {},
                            outcome)
    /\ UNCHANGED <<directory, reportingTo, updatedBy, isDeleted, isActive,
                   canLogin, lastLogin, now, inflight>>

(***************************************************************************)
(* Specifications                                                          *)
(***************************************************************************)
NoRequest == Response("none", Null, Null, Null, "none")

\* The schema defaults of the login state of a user that was never enabled
\* for login: active, canLogin false, no UserLogin record.
NoLogins ==
    /\ isActive = [u \in Ids |-> TRUE]
    /\ canLogin = [u \in Ids |-> FALSE]
    /\ lastLogin = [u \in Ids |-> Null]
    /\ logins = << >>
    /\ now = 1
    /\ inflight = << >>

\* The authenticated users that send requests.
Actors == PolicyUsers

\* A directory as registerUser leaves it: every user has the default role
\* "user" and its own branch as its only assigned branch.
SeedBranch(u) == IF u % 2 = 1 THEN "X" ELSE "Y"

SeedDirectory ==
    /\ users = 1..NumUsers
    /\ role = [u \in Ids |-> "user"]
    /\ branch = [u \in Ids |-> SeedBranch(u)]
    /\ assignedBranches = [u \in Ids |-> <<SeedBranch(u)>>]

Init ==
    /\ SeedDirectory
    /\ reportingTo = [u \in Ids |-> Null]
    /\ updatedBy = [u \in Ids |-> Null]
    /\ isDeleted = [u \in Ids |-> FALSE]
    /\ NoLogins
    /\ branchAssignmentLogs = {}
    /\ last = NoRequest

\* The user that sends the requests of the specifications that follow whole
\* sequences of requests.
Admins == {1}

\* Every route that reads or writes reportingTo, and the soft delete.
Next ==
    \/ \E id \in Ids, mgr \in Ids \cup {Null}, actor \in Admins :
           AssignReportingAuthority(id, mgr, actor)
    \/ \E id \in Ids, actor \in Admins : RemoveReportingAuthority(id, actor)
    \/ \E userId \in Ids \cup {Null}, reportingToId \in Ids \cup {Null} :
           AssignReportingTo(userId, reportingToId)
    \/ \E id \in Ids, actor \in Admins : deleteUser(id, actor)
    \/ \E id \in Ids, actor \in Admins : restoreUser(id, actor)
    \/ \E id \in Ids : getReportingChainUp(id)
    \/ \E id \in Ids : getSubordinates(id)
    \/ \E id \in Ids : getUserHierarchy(id)

Spec == Init /\ [][Next]_vars

\* The hierarchy engine alone: sequences of requests to the routes of
\* reporting.controller.js.
EngineNext ==
    \/ \E id \in Ids, mgr \in Ids \cup {Null}, actor \in Admins :
           AssignReportingAuthority(id, mgr, actor)
    \/ \E id \in Ids, actor \in Admins : RemoveReportingAuthority(id, actor)
    \/ \E id \in Ids : getReportingChainUp(id)

EngineSpec == Init /\ [][EngineNext]_vars

\* One request to the engine, for every role, branch and assigned branches
\* of the two users it concerns and every edge between them.
PolicyInit ==
    /\ users = PolicyUsers
    /\ \E r \in [PolicyUsers -> RoleNames] :
           role = [u \in Ids |-> IF u \in PolicyUsers THEN r[u] ELSE "user"]
    /\ \E b \in [PolicyUsers -> Branches] :
           branch = [u \in Ids |-> IF u \in PolicyUsers THEN b[u] ELSE "X"]
    /\ \E a \in [PolicyUsers -> SUBSET Branches] :
           assignedBranches =
               [u \in Ids |-> IF u \in PolicyUsers THEN ArrayOf(a[u]) ELSE << >>]
    /\ \E m \in [PolicyUsers -> PolicyUsers \cup {Null}] :
           /\ \A u \in PolicyUsers : m[u] # u
           /\ \E u \in PolicyUsers : m[u] = Null
           /\ reportingTo =
                  [u \in Ids |-> IF u \in PolicyUsers THEN m[u] ELSE Null]
    /\ updatedBy = [u \in Ids |-> Null]
    /\ isDeleted = [u \in Ids |-> FALSE]
    /\ NoLogins
    /\ branchAssignmentLogs = {}
    /\ last = NoRequest

\* The handlers as the first and only request of a behaviour.
FirstAssignReportingAuthority(id, mgr, actor) ==
    last = NoRequest /\ AssignReportingAuthority(id, mgr, actor)

FirstRemoveReportingAuthority(id, actor) ==
    last = NoRequest /\ RemoveReportingAuthority(id, actor)

FirstGetReportingChainUp(id) == last = NoRequest /\ getReportingChainUp(id)

FirstGetSubordinates(id) == last = NoRequest /\ getSubordinates(id)

FirstGetUserHierarchy(id) == last = NoRequest /\ getUserHierarchy(id)

PolicyNext ==
    \/ \E id \in Ids, mgr \in Ids \cup {Null}, actor \in Actors :
           FirstAssignReportingAuthority(id, mgr, actor)
    \/ \E id \in Ids, actor \in Actors : FirstRemoveReportingAuthority(id, actor)

PolicySpec == PolicyInit /\ [][PolicyNext]_vars

\* One request against an arbitrary content of the User collection: any
\* set of documents and any reportingTo values, dangling and cyclic ones
\* included.
StoreInit ==
    /\ users \in SUBSET Ids
    /\ role = [u \in Ids |-> "user"]
    /\ branch = [u \in Ids |-> SeedBranch(u)]
    /\ assignedBranches = [u \in Ids |-> <<SeedBranch(u)>>]
    /\ \E m \in [users -> Ids \cup {Null}] :
           reportingTo = [u \in Ids |-> IF u \in users THEN m[u] ELSE Null]
    /\ updatedBy = [u \in Ids |-> Null]
    /\ isDeleted = [u \in Ids |-> FALSE]
    /\ NoLogins
    /\ branchAssignmentLogs = {}
    /\ last = NoRequest

StoreNext ==
    \/ \E id \in Ids, mgr \in Ids \cup {Null}, actor \in Actors :
           FirstAssignReportingAuthority(id, mgr, actor)
    \/ \E id \in Ids : FirstGetReportingChainUp(id)
    \/ \E id \in Ids : FirstGetSubordinates(id)
    \/ \E id \in Ids : FirstGetUserHierarchy(id)

StoreSpec == StoreInit /\ [][StoreNext]_vars

\* NumRequests requests to assignReportingAuthority that run at the same
\* time, interleaved at their awaits, from a relation without edges.
ConcurrentNext ==
    \/ \E r \in Requests, id \in Ids, mgr \in Ids \cup {Null}, actor \in Admins :
           AssignFindTarget(r, id, mgr, actor)
    \/ \E r \in Requests : AssignFindManager(r)
    \/ \E r \in Requests : AssignWalkStart(r)
    \/ \E r \in Requests : AssignWalkStep(r)
    \/ \E r \in Requests : AssignSave(r)

ConcurrentSpec == Init /\ [][ConcurrentNext]_vars

\* The accounts of the users: requests to the user routes that create a
\* user, enable or disable its login, delete it and restore it.
AccountNext ==
    \/ \E newBranch \in {NoValue, "X"}, loginAllowed \in BOOLEAN,
          active \in BOOLEAN, username \in {NoValue, "U2"},
          password \in {NoValue, "pw"} :
           registerUser(1, newBranch, loginAllowed, active, username, password)
    \/ \E id \in Ids, wantLogin \in BOOLEAN, username \in {NoValue, "U1", "U2"},
          password \in {NoValue, "pw"} :
           updateUser(id, 1, NoValue, NoValue, wantLogin, username, password)
    \/ \E id \in Ids : deleteUser(id, 1)
    \/ \E id \in Ids : restoreUser(id, 1)

AccountSpec == Init /\ [][AccountNext]_vars

\* Requests to /assign-reporting only.
ReportingToNext ==
    \E userId \in Ids \cup {Null}, reportingToId \in Ids \cup {Null} :
        AssignReportingTo(userId, reportingToId)

ReportingToSpec == Init /\ [][ReportingToNext]_vars

\* Requests that place a user in a branch: two acting users create users
\* and change the branch and the role of users.
PlacementActors == {1, 2}

PlacementNext ==
    \/ \E actor \in PlacementActors, newBranch \in Branches \cup {NoValue} :
           registerUser(actor, newBranch, FALSE, TRUE, NoValue, NoValue)
    \/ \E id \in PlacementActors, actor \in PlacementActors,
          newBranch \in Branches \cup {NoValue},
          newRole \in {NoValue, "administrator"} :
           updateUser(id, actor, newBranch, newRole, FALSE, NoValue, NoValue)

PlacementSpec == Init /\ [][PlacementNext]_vars

\* Requests to /assign-branch and /remove-branch with every array of at
\* most MaxBranchIds ids, an id that no Branch document has among them.
MaxBranchIds == 2

RequestBranches == Branches \cup {"Z"}

BranchIdArrays ==
    UNION {[1..n -> RequestBranches] : n \in 0..MaxBranchIds}

BranchNext ==
    \E userId \in {1, NumUsers + 1}, branchIds \in BranchIdArrays,
       action \in {"assign", "remove", "move"} :
        updateUserBranches(userId, branchIds, action)

BranchSpec == Init /\ [][BranchNext]_vars

\* Sequences of hierarchy requests and of the user updates that change the
\* role, the branch or the assigned branches of the two users of an edge.
UpdateRoles == {"head", "clerk"}

DirectoryInit ==
    /\ users = PolicyUsers
    /\ role = [u \in Ids |-> "user"]
    /\ branch = [u \in Ids |-> SeedBranch(u)]
    /\ assignedBranches = [u \in Ids |-> <<SeedBranch(u)>>]
    /\ reportingTo = [u \in Ids |-> Null]
    /\ updatedBy = [u \in Ids |-> Null]
    /\ isDeleted = [u \in Ids |-> FALSE]
    /\ NoLogins
    /\ branchAssignmentLogs = {}
    /\ last = NoRequest

DirectoryNext ==
    \/ \E id \in PolicyUsers, mgr \in PolicyUsers \cup {Null}, actor \in Admins :
           AssignReportingAuthority(id, mgr, actor)
    \/ \E id \in PolicyUsers, actor \in Admins :
           RemoveReportingAuthority(id, actor)
    \/ \E id \in PolicyUsers, actor \in Admins,
          newBranch \in Branches \cup {NoValue},
          newRole \in UpdateRoles \cup {NoValue} :
           updateUser(id, actor, newBranch, newRole, FALSE, NoValue, NoValue)
    \/ \E userId \in PolicyUsers, branchIds \in SUBSET Branches,
          action \in {"assign", "remove"} :
           updateUserBranches(userId, ArrayOf(branchIds), action)

DirectorySpec == DirectoryInit /\ [][DirectoryNext]_vars

\* The user whose login was enabled, as updateUser with canLogin true, a
\* username and a password leaves the user and its new UserLogin record.
LoginUser == 1

LoginInit ==
    /\ SeedDirectory
    /\ reportingTo = [u \in Ids |-> Null]
    /\ updatedBy = [u \in Ids |-> IF u = LoginUser THEN LoginUser ELSE Null]
    /\ isDeleted = [u \in Ids |-> FALSE]
    /\ isActive = [u \in Ids |-> TRUE]
    /\ canLogin = [u \in Ids |-> u = LoginUser]
    /\ lastLogin = [u \in Ids |-> Null]
    /\ logins = [u \in {LoginUser} |-> NewLogin("U1", "pw")]
    /\ now = 1
    /\ inflight = << >>
    /\ branchAssignmentLogs = {}
    /\ last = NoRequest

Usernames == {"U1", "u2", NoValue}

Passwords == {"pw", "bad"}

\* The lockout machine in time: requests to POST /login from one device,
\* the clock, and the switch that disables and enables the user.
LockoutNext ==
    \/ \E username \in Usernames, password \in Passwords :
           loginUser(username, password, "d1", "ip1", "ua1")
    \/ toggleUserStatus(LoginUser, LoginUser)
    \/ \E wantLogin \in BOOLEAN :
           updateUser(LoginUser, LoginUser, NoValue, NoValue, wantLogin,
                      "U1", "pw")
    \/ Tick

LockoutSpec == LoginInit /\ [][LockoutNext]_vars

\* The device registry at one instant: requests to POST /login and POST
\* /logout from several devices and addresses.
DeviceIds == {"d1", "d2", NoValue}

IpAddresses == {"ip1", "ip2"}

UserAgents == {"ua1", NoValue}

\* A device logs in at most this many times.
MaxLogins == 2

\* A login from a device of a registry in which no device has used up its
\* logins.
BoundedLoginUser(deviceId, ipAddress, userAgent) ==
    /\ \A i \in 1..Len(logins[LoginUser].loggedInDevices) :
           logins[LoginUser].loggedInDevices[i].loginCount < MaxLogins
    /\ loginUser("U1", "pw", deviceId, ipAddress, userAgent)

DeviceNext ==
    \/ \E deviceId \in DeviceIds, ipAddress \in IpAddresses,
          userAgent \in UserAgents :
           BoundedLoginUser(deviceId, ipAddress, userAgent)
    \/ \E userId \in {Null, LoginUser}, deviceId \in {"d1", "d2", "g1", NoValue} :
           logoutUser(userId, "U1", deviceId)

DeviceSpec == LoginInit /\ [][DeviceNext]_vars

\* Sessions on several devices of two users that can log in: every route
\* of auth.routes.js that opens, closes or uses a session, and the clock.
SessionUsers == {1, 2}

\* The roles of the two users: a role that may log everybody out, a role
\* with a rank, and the role of registerUser, which has none.
SessionRoles == {"superadmin", "head", "user"}

SessionInit ==
    /\ users = 1..NumUsers
    /\ \E r1 \in SessionRoles \ {"user"}, r2 \in SessionRoles \ {"superadmin"} :
           role = [u \in Ids |-> IF u = 1 THEN r1
                                 ELSE IF u = 2 THEN r2 ELSE "user"]
    /\ branch = [u \in Ids |-> SeedBranch(u)]
    /\ assignedBranches = [u \in Ids |-> <<SeedBranch(u)>>]
    /\ reportingTo = [u \in Ids |-> Null]
    /\ updatedBy = [u \in Ids |-> IF u \in SessionUsers THEN u ELSE Null]
    /\ isDeleted = [u \in Ids |-> FALSE]
    /\ isActive = [u \in Ids |-> TRUE]
    /\ canLogin = [u \in Ids |-> u \in SessionUsers]
    /\ lastLogin = [u \in Ids |-> Null]
    /\ logins = [u \in SessionUsers |->
                    NewLogin(IF u = 1 THEN "U1" ELSE "U2", "pw")]
    /\ now = 1
    /\ inflight = << >>
    /\ branchAssignmentLogs = {}
    /\ last = NoRequest

SessionDevices == {"d1", "d2"}

\* Every device sends its requests from its own address.
IpOf(deviceId) == IF deviceId = "d1" THEN "ip1" ELSE "ip2"

\* A login with the right password from a device of a registry in which
\* no device has used up its logins.
SessionLogin(username, deviceId) ==
    /\ \A u \in FindLogin(username) :
           \A i \in 1..Len(logins[u].loggedInDevices) :
               logins[u].loggedInDevices[i].loginCount < MaxLogins
    /\ loginUser(username, "pw", deviceId, IpOf(deviceId), "ua1")

SessionNext ==
    \/ \E deviceId \in SessionDevices : SessionLogin("U1", deviceId)
    \/ SessionLogin("U2", "d1")
    \/ \E userId \in SessionUsers, deviceId \in SessionDevices \cup {"d3"} :
           logoutUser(userId, NoValue, deviceId)
    \/ \E userId \in SessionUsers \cup {3} :
           logoutFromAllDevices(userId, NoValue)
    \/ \E userIds \in SUBSET SessionUsers, actor \in SessionUsers :
           logoutSelectedUsers(userIds, actor)
    \/ \E actor \in SessionUsers : logoutAllBelowUsers(actor)

SessionSpec == SessionInit /\ [][SessionNext]_vars

\* Login requests of one user that are in progress at the same time, each
\* step of each in any order.
RacingLoginNext ==
    \/ \E r \in Requests, password \in Passwords, deviceId \in SessionDevices :
           LoginFindOne(r, "U1", password, deviceId, IpOf(deviceId), "ua1")
    \/ \E r \in Requests : LoginCompare(r)
    \/ \E r \in Requests : LoginSave(r)
    \/ \E r \in Requests : LoginSaveUser(r)

RacingLoginSpec == LoginInit /\ [][RacingLoginNext]_vars

\* Logins at the same time to a record that one login, from the device d0,
\* has left with one registered device.
AdmissionInit ==
    /\ SeedDirectory
    /\ reportingTo = [u \in Ids |-> Null]
    /\ updatedBy = [u \in Ids |-> IF u = LoginUser THEN LoginUser ELSE Null]
    /\ isDeleted = [u \in Ids |-> FALSE]
    /\ isActive = [u \in Ids |-> TRUE]
    /\ canLogin = [u \in Ids |-> u = LoginUser]
    /\ now = 1
    /\ lastLogin = [u \in Ids |-> IF u = LoginUser THEN now ELSE Null]
    /\ logins = [u \in {LoginUser} |->
                    [NewLogin("U1", "pw") EXCEPT
                        !.loggedInDevices =
                            AdmitDevice(LoginUser, @, "d0", "ip0", "ua1"),
                        !.isLoggedIn = TRUE]]
    /\ inflight = << >>
    /\ branchAssignmentLogs = {}
    /\ last = NoRequest

AdmissionNext ==
    \/ \E r \in Requests, password \in Passwords, deviceId \in SessionDevices :
           LoginFindOne(r, "U1", password, deviceId, IpOf(deviceId), "ua1")
    \/ \E r \in Requests : LoginCompare(r)
    \/ \E r \in Requests : LoginSave(r)
    \/ \E r \in Requests : LoginSaveUser(r)

AdmissionSpec == AdmissionInit /\ [][AdmissionNext]_vars

\* The sessions of one user over the days: logins and logouts on two
\* devices, and the clock, which jumps a day.
\* The days the clock of a session runs.
MaxDays == 1

\* 24 hours pass without a request.
NextDay ==
    /\ now <= (MaxDays - 1) * DayTicks + 1
    /\ now' = now + DayTicks
    /\ UNCHANGED <<directory, reportingTo, updatedBy, isDeleted, isActive,
                   canLogin, lastLogin, logins, inflight, last,
                   branchAssignmentLogs>>

CleanupNext ==
    \/ \E deviceId \in SessionDevices : SessionLogin("U1", deviceId)
    \/ \E deviceId \in SessionDevices \cup {"d3"} :
           logoutUser(LoginUser, NoValue, deviceId)
    \/ NextDay

CleanupSpec == LoginInit /\ [][CleanupNext]_vars

\* The refresh tokens of one user in time: logins and logouts on two
\* devices, the clock, and POST /refresh-token with every token that a
\* client can hold.
TokenTime == 2

TokenTick == now <= TokenTime /\ Tick

\* The times at which a token that a client holds can have been signed.
TokenTimes == {t \in 1..(TokenTime + 1) : t <= now}

\* The tokens a client can send: none, one signed by this server (for any
\* device, at any earlier time) or one signed by somebody else.
ClientTokens ==
    {NoToken}
    \cup [id : {LoginUser}, deviceId : SessionDevices, iat : TokenTimes]
    \cup [id : {LoginUser}, deviceId : {"d1"}, iat : {Null}]

ClientRefresh(token, deviceId) ==
    token \in ClientTokens /\ refreshAccessToken(token, deviceId)

TokenNext ==
    \/ \E deviceId \in SessionDevices : SessionLogin("U1", deviceId)
    \/ \E deviceId \in SessionDevices : logoutUser(LoginUser, NoValue, deviceId)
    \/ logoutFromAllDevices(LoginUser, NoValue)
    \/ \E t \in {Null} \cup (1..(TokenTime + 1)),
          id \in {Null, LoginUser},
          tokenDevice \in SessionDevices \cup {NoValue},
          deviceId \in SessionDevices \cup {NoValue} :
           ClientRefresh([id |-> id, deviceId |-> tokenDevice, iat |-> t],
                         deviceId)
    \/ TokenTick

TokenSpec == LoginInit /\ [][TokenNext]_vars

\* A record that is locked while one of its devices holds a refresh token:
\* logins from one device with a right or a wrong password, and requests to
\* /re-authenticate and /refresh-token from the clients of that user.
ReAuthLogin(password) ==
    /\ \A i \in 1..Len(logins[LoginUser].loggedInDevices) :
           logins[LoginUser].loggedInDevices[i].loginCount < MaxLogins
    /\ loginUser("U1", password, "d1", "ip1", "ua1")

ReAuthNext ==
    \/ \E password \in Passwords : ReAuthLogin(password)
    \/ logoutUser(LoginUser, NoValue, "d1")
    \/ \E userId \in {Null, LoginUser, 2}, password \in Passwords \cup {NoValue} :
           reAuthenticateUser(userId, password)
    \/ \E t \in {Null} \cup (1..(TokenTime + 1)) :
           ClientRefresh([id |-> LoginUser, deviceId |-> "d1", iat |-> t], "d1")
    \/ TokenTick

ReAuthSpec == LoginInit /\ [][ReAuthNext]_vars

(***************************************************************************)
(* The reportingTo relation, stated without the handlers' walks            *)
(***************************************************************************)
\* The user reached from u by k reportingTo hops; Null when the chain ends
\* (no manager, or a reference to no document) before the k-th hop.
RECURSIVE ManagerAt(_, _)
ManagerAt(u, k) ==
    IF k = 0 THEN u
    ELSE LET m == ManagerAt(u, k - 1) IN
         IF m = Null \/ m \notin users THEN Null ELSE reportingTo[m]

MaxHops == Cardinality(Ids) + 1

\* Every id reached from u by one or more hops.
AncestorsOf(u) == {ManagerAt(u, k) : k \in 1..MaxHops} \ {Null}

\* m is below u: u is reached from m by following reportingTo.
IsDescendant(m, u) == u \in AncestorsOf(m)

(***************************************************************************)
(* C1  After any sequence of assignReportingAuthority requests that starts *)
(* from a relation without edges, reportingTo has no cycle: from every     *)
(* user, following reportingTo reaches a user without reportingTo in at    *)
(* most as many steps as there are users, and no user is its own ancestor. *)
(***************************************************************************)
C1_NoCycle ==
    \A u \in users :
        /\ \E k \in 0..Cardinality(users) :
               /\ ManagerAt(u, k) \in users
               /\ reportingTo[ManagerAt(u, k)] = Null
        /\ u \notin AncestorsOf(u)

\* An assignment has just succeeded at the bottom of a chain of two edges.
C1_Witness ==
    /\ last.op = "assign"
    /\ last.status = "Assigned"
    /\ reportingTo[last.mgr] # Null

(***************************************************************************)
(* C2  assignReportingAuthority(U, M) is rejected and leaves U.reportingTo *)
(* as it was when M is U (self-report) or M is below U at any depth; when  *)
(* M is below U the rejection is the circular-reference error.             *)
(***************************************************************************)
C2_DescendantRejected ==
    [][\A u \in users, m \in users :
           (/\ last'.op = "assign" /\ last'.id = u /\ last'.mgr = m
            /\ (m = u \/ IsDescendant(m, u)))
           => /\ reportingTo' = reportingTo
              /\ (m = u => last'.status = "SelfReport")
              /\ (m # u => last'.status = "Circular")]_vars

\* A candidate three levels below the target was refused as circular.
C2_Witness ==
    /\ last.op = "assign"
    /\ last.status = "Circular"
    /\ reportingTo[last.mgr] # last.id
    /\ reportingTo[reportingTo[last.mgr]] # last.id

(***************************************************************************)
(* Seniority and branch scope, stated on the role and branch fields        *)
(***************************************************************************)
\* The user's role carries a seniority rank.
HasRank(u) == RoleLevel(role[u]) # Undefined

\* m is strictly more senior than u: a lower rank number.
StrictlySenior(m, u) ==
    HasRank(m) /\ HasRank(u) /\ RoleLevel(role[m]) < RoleLevel(role[u])

\* u's branch is m's primary branch or one of m's assigned branches.
BranchOverlap(u, m) ==
    branch[u] = branch[m] \/ branch[u] \in assignedBranchIds(m)

\* m's rank is senior enough to be exempt from the branch check.
SeniorityExempt(m) ==
    HasRank(m) /\ RoleLevel(role[m]) <= BranchExemptLevel

\* a's rank meets the threshold of removeReportingAuthority.
MeetsRemoveThreshold(a) ==
    HasRank(a) /\ RoleLevel(role[a]) <= RemoveMaxLevel

(***************************************************************************)
(* C3  assignReportingAuthority(U, M) with a manager M is rejected and     *)
(* U.reportingTo is unchanged whenever M is not strictly more senior than  *)
(* U; no edge is written for which the rank comparison did not hold.       *)
(***************************************************************************)
C3_SeniorityEnforced ==
    [][\A u \in users, m \in users :
           (/\ last'.op = "assign" /\ last'.id = u /\ last'.mgr = m
            /\ ~StrictlySenior(m, u))
           => /\ last'.status # "Assigned"
              /\ reportingTo'[u] = reportingTo[u]]_vars

(***************************************************************************)
(* C4  assignReportingAuthority(U, M) is rejected and U.reportingTo is     *)
(* unchanged whenever U's branch is neither M's primary branch nor one of  *)
(* M's assigned branches, unless M's rank is senior enough to be exempt.   *)
(***************************************************************************)
C4_BranchScopeEnforced ==
    [][\A u \in users, m \in users :
           (/\ last'.op = "assign" /\ last'.id = u /\ last'.mgr = m
            /\ ~BranchOverlap(u, m)
            /\ ~SeniorityExempt(m))
           => /\ last'.status # "Assigned"
              /\ reportingTo'[u] = reportingTo[u]]_vars

(***************************************************************************)
(* C5  assignReportingAuthority answers not-found and changes nothing when *)
(* the target user does not exist or is soft-deleted.                      *)
(***************************************************************************)
C5_DeletedTargetNotFound ==
    [][(/\ last'.op = "assign"
        /\ (last'.id \notin users \/ isDeleted[last'.id]))
       => /\ last'.status = "TargetNotFound"
          /\ reportingTo' = reportingTo
          /\ updatedBy' = updatedBy]_vars

(***************************************************************************)
(* C6  assignReportingAuthority without a manager id on an existing target *)
(* always succeeds, with no self-report, cycle, seniority or branch check: *)
(* afterwards the target's reportingTo is null and its updatedBy is the    *)
(* acting user, whatever the previous manager and the actor's role.        *)
(***************************************************************************)
C6_ClearAlwaysSucceeds ==
    (last.op = "assign" /\ last.mgr = Null /\ last.id \in users)
    => /\ last.status = "Cleared"
       /\ reportingTo[last.id] = Null
       /\ updatedBy[last.id] = last.actor

\* The relation of a target was cleared by an actor whose rank is too
\* junior for removeReportingAuthority, while another user reports to the
\* target.
C6_Witness ==
    /\ last.op = "assign"
    /\ last.mgr = Null
    /\ last.status = "Cleared"
    /\ role[last.actor] = "clerk"
    /\ \E u \in users : reportingTo[u] = last.id

(***************************************************************************)
(* C7  removeReportingAuthority clears a user's reportingTo only when the  *)
(* acting user meets the seniority threshold; for an acting user who does  *)
(* not, the request is refused as forbidden and reportingTo is unchanged.  *)
(* Stated for the targets that have a manager to remove.                   *)
(***************************************************************************)
C7_RemoveNeedsSeniority ==
    [][\A u \in users :
           (/\ last'.op = "remove" /\ last'.id = u
            /\ reportingTo[u] \in users
            /\ ~MeetsRemoveThreshold(last'.actor))
           => /\ last'.status = "Forbidden"
              /\ reportingTo' = reportingTo]_vars

(***************************************************************************)
(* C8  A successful assignReportingAuthority(U, M) followed at once by     *)
(* getAncestorChain(U) returns a sequence whose first element is M.        *)
(***************************************************************************)
C8_RoundTrip ==
    (last.op = "assign" /\ last.status = "Assigned")
    => /\ ChainResponse(last.id).status = "Chain"
       /\ Len(ChainResponse(last.id).chain) >= 1
       /\ ChainResponse(last.id).chain[1].id = last.mgr

\* The user just assigned has a chain of two managers or more.
C8_Witness ==
    /\ last.op = "assign"
    /\ last.status = "Assigned"
    /\ Len(ChainResponse(last.id).chain) >= 2

\* The chain above u ends: at a user without manager or at a reference to
\* no document.
ChainEnds(u) ==
    \E k \in 0..Cardinality(Ids) :
        /\ ManagerAt(u, k) \in users
        /\ reportingTo[ManagerAt(u, k)] \notin users

(***************************************************************************)
(* C9  getAncestorChain(U) returns exactly the users reached from U by     *)
(* reportingTo, from the immediate manager to the root, without U; a       *)
(* reportingTo that points to no user ends the walk, which then returns    *)
(* the chain collected so far as a success.                                *)
(***************************************************************************)
C9_AncestorChain ==
    (last.op = "chainUp" /\ last.id \in users)
    => /\ ChainEnds(last.id) => last.status = "Chain"
       /\ last.status = "Chain" =>
             /\ \A i \in 1..Len(last.chain) :
                    /\ ManagerAt(last.id, i) \in users
                    /\ last.chain[i].id = ManagerAt(last.id, i)
                    /\ last.chain[i].role = role[ManagerAt(last.id, i)]
                    /\ last.chain[i].branch = branch[ManagerAt(last.id, i)]
             /\ reportingTo[ManagerAt(last.id, Len(last.chain))] \notin users
             /\ {last.chain[i].id : i \in 1..Len(last.chain)}
                    = AncestorsOf(last.id) \cap users
             /\ \A i \in 1..Len(last.chain) : last.chain[i].id # last.id

\* A chain of two managers was returned although the second one refers to
\* a user that does not exist.
C9_Witness ==
    /\ last.op = "chainUp"
    /\ last.status = "Chain"
    /\ Len(last.chain) >= 2
    /\ reportingTo[last.chain[Len(last.chain)].id] # Null

\* The users other than x from which x is reached, with the least number
\* of hops less one.
ExpectedSubtree(x) ==
    {[id |-> p[1], level |-> p[2] - 1] :
         p \in {q \in (users \ {x}) \X (1..MaxHops) :
                    /\ ManagerAt(q[1], q[2]) = x
                    /\ \A j \in 1..(q[2] - 1) : ManagerAt(q[1], j) # x}}

\* The nodes below the root of a tree of buildHierarchy, with their depth.
RECURSIVE TreeNodes(_, _)
TreeNodes(tree, depth) ==
    UNION {{[id |-> t.id, level |-> depth]} \cup TreeNodes(t, depth + 1) :
               t \in tree.subordinates}

(***************************************************************************)
(* C10  getSubordinateSubtree(X) returns exactly the users whose ancestor  *)
(* chain includes X, at every depth, nobody else and not X, each with its  *)
(* depth: the number of reportingTo hops from the user to X, minus one.    *)
(***************************************************************************)
C10_SubordinateSubtree ==
    /\ (last.op = "subordinates" /\ last.status = "Subordinates")
           => last.subs = ExpectedSubtree(last.id)
    /\ (last.op = "hierarchy" /\ last.status = "Hierarchy")
           => TreeNodes(last.tree, 0) = ExpectedSubtree(last.id)

(***************************************************************************)
(* C11  In every reachable state, after any sequence of hierarchy requests *)
(* and of user updates that change role, branch or assigned branches,      *)
(* every stored edge U.reportingTo = M respects the edge policy: M is      *)
(* strictly more senior than U and, unless M is exempt by seniority, U's   *)
(* branch is M's primary branch or one of M's assigned branches.           *)
(***************************************************************************)
C11_EdgePolicy ==
    \A u \in users :
        reportingTo[u] \in users =>
            /\ StrictlySenior(reportingTo[u], u)
            /\ (SeniorityExempt(reportingTo[u]) \/ BranchOverlap(u, reportingTo[u]))

(***************************************************************************)
(* C12  The relation has no cycle under concurrency: for any interleaving  *)
(* of the reads (target lookup, manager lookup, cycle walk) and the write  *)
(* of two or more assignReportingAuthority requests that run at the same   *)
(* time, no user is reached from itself by following reportingTo.          *)
(***************************************************************************)
C12_NoCycleConcurrent ==
    \A u \in users : ~IsDescendant(u, u)

(***************************************************************************)
(* C13  A successful assignReportingAuthority changes only the target's    *)
(* reportingTo and updatedBy: no other user's record, and no reportingTo   *)
(* of a descendant or of the manager, is modified; a rejected call         *)
(* modifies no record at all.                                              *)
(***************************************************************************)
C13_AssignFrame ==
    [][last'.op = "assign" =>
          /\ \A v \in Ids \ {last'.id} :
                 /\ reportingTo'[v] = reportingTo[v]
                 /\ updatedBy'[v] = updatedBy[v]
          /\ UNCHANGED <<directory, isDeleted, isActive, canLogin, lastLogin,
                         logins>>
          /\ (last'.status \in {"Assigned", "Cleared"} =>
                 /\ reportingTo'[last'.id] = last'.mgr
                 /\ updatedBy'[last'.id] = last'.actor)
          /\ (last'.status \notin {"Assigned", "Cleared"} =>
                 UNCHANGED <<reportingTo, updatedBy>>)]_vars

\* An assignment succeeded for a target that has a user reporting to it and
\* whose new manager has a manager of its own.
C13_Witness ==
    /\ last.op = "assign"
    /\ last.status = "Assigned"
    /\ \E u \in users : reportingTo[u] = last.id
    /\ reportingTo[last.mgr] \in users

(***************************************************************************)
(* The lockout machine, stated on the fields of the login record           *)
(***************************************************************************)
\* The step is a request to POST /login with a username and a password,
\* and u is the user whose record has that username.
LoginStep(u) ==
    /\ last'.op = "login"
    /\ now' = now
    /\ last'.username # NoValue
    /\ last'.password # NoValue
    /\ u \in DOMAIN logins
    /\ logins[u].username = ToLowerCase(last'.username)

\* No check that precedes the comparison of the secret refuses user u.
ReachesComparison(u) ==
    /\ u \in users
    /\ isActive[u]
    /\ canLogin[u]
    /\ ~logins[u].isPermanentlyLocked
    /\ ~(logins[u].lockUntil # Null /\ logins[u].lockUntil > now)

(***************************************************************************)
(* C14  In every persisted state of every login record, after any sequence *)
(* of login requests with right or wrong passwords, the failed-attempt     *)
(* counter is in 0..2 and lockLevel is in 0..4.                            *)
(***************************************************************************)
C14_CounterRanges ==
    \A u \in DOMAIN logins :
        /\ logins[u].failedLoginAttempts \in 0..2
        /\ logins[u].lockLevel \in 0..4

\* The twelfth wrong password has just taken the record to level 4.
C14_Witness ==
    /\ last.op = "login"
    /\ last.status = "LockedOut"
    /\ logins[LoginUser].lockLevel = 4
    /\ logins[LoginUser].failedLoginAttempts = 0

(***************************************************************************)
(* C15  On a password mismatch the attempt counter is incremented; when it *)
(* reaches 3 the lockLevel is incremented by one, the counter is reset to  *)
(* 0, and lockUntil is set to now + 1 minute for the resulting level 1,    *)
(* now + 3 minutes for level 2, now + 5 minutes for level 3, while a       *)
(* resulting level of 4 or more sets isPermanentlyLocked instead of a      *)
(* duration.  So a record with 2 attempts at level 0 that receives a wrong *)
(* password ends at level 1 with 0 attempts and lockUntil = now + 60 s.    *)
(***************************************************************************)
C15_MismatchEscalates ==
    [][\A u \in DOMAIN logins :
           (/\ LoginStep(u)
            /\ ReachesComparison(u)
            /\ ~Compare(last'.password, logins[u].password))
           => IF logins[u].failedLoginAttempts + 1 < 3
              THEN /\ logins'[u].failedLoginAttempts
                          = logins[u].failedLoginAttempts + 1
                   /\ logins'[u].lockLevel = logins[u].lockLevel
                   /\ logins'[u].lockUntil = logins[u].lockUntil
                   /\ logins'[u].isPermanentlyLocked
                          = logins[u].isPermanentlyLocked
              ELSE /\ logins'[u].failedLoginAttempts = 0
                   /\ logins'[u].lockLevel = logins[u].lockLevel + 1
                   /\ (logins'[u].lockLevel = 1 =>
                          logins'[u].lockUntil = now + 1 * TicksPerMinute)
                   /\ (logins'[u].lockLevel = 2 =>
                          logins'[u].lockUntil = now + 3 * TicksPerMinute)
                   /\ (logins'[u].lockLevel = 3 =>
                          logins'[u].lockUntil = now + 5 * TicksPerMinute)
                   /\ (logins'[u].lockLevel < 4 =>
                          ~logins'[u].isPermanentlyLocked)
                   /\ (logins'[u].lockLevel >= 4 =>
                          /\ logins'[u].isPermanentlyLocked
                          /\ logins'[u].lockUntil = logins[u].lockUntil)]_vars

\* The third wrong password after the first lock has expired has just
\* locked the record for three minutes.
C15_Witness ==
    /\ last.op = "login"
    /\ last.status = "LockedOut"
    /\ logins[LoginUser].lockLevel = 2
    /\ logins[LoginUser].failedLoginAttempts = 0
    /\ logins[LoginUser].lockUntil = now + 3 * TicksPerMinute

(***************************************************************************)
(* C16  Starting from an unlocked record (0 attempts, level 0), three      *)
(* consecutive failed logins take lockLevel to 1, and every further login  *)
(* request made less than 1 minute later fails as temporarily locked,      *)
(* whether the password is right or wrong.  Stated step by step: the       *)
(* first and second mismatch at level 0 leave the record unlocked with 1   *)
(* and 2 attempts, the third one locks it at level 1 for one minute, and   *)
(* while that minute has not passed every request is refused as            *)
(* temporarily locked and leaves the record as it is.                      *)
(***************************************************************************)
C16_LockedForOneMinute ==
    [][\A u \in DOMAIN logins :
           (LoginStep(u) /\ u \in users /\ isActive[u] /\ canLogin[u])
           => /\ (/\ logins[u].lockLevel = 0
                  /\ ReachesComparison(u)
                  /\ ~Compare(last'.password, logins[u].password))
                 => IF logins[u].failedLoginAttempts < 2
                    THEN /\ logins'[u].failedLoginAttempts
                                = logins[u].failedLoginAttempts + 1
                         /\ logins'[u].lockLevel = 0
                         /\ ReachesComparison(u)'
                    ELSE /\ logins'[u].lockLevel = 1
                         /\ logins'[u].lockUntil = now + TicksPerMinute
                         /\ ~logins'[u].isPermanentlyLocked
              /\ (/\ logins[u].lockLevel = 1
                  /\ ~logins[u].isPermanentlyLocked
                  /\ logins[u].lockUntil # Null
                  /\ now < logins[u].lockUntil)
                 => /\ last'.status = "TemporarilyLocked"
                    /\ logins' = logins]_vars

\* Thirty seconds after the first lock, the right password was refused.
C16_Witness ==
    /\ last.op = "login"
    /\ last.status = "TemporarilyLocked"
    /\ last.password = "pw"
    /\ logins[LoginUser].lockLevel = 1
    /\ logins[LoginUser].lockUntil = now + 1

(***************************************************************************)
(* C17  Permanent lock is absorbing.  A record whose lockLevel reached 4   *)
(* is permanently locked; no login request ever clears the flag; and       *)
(* every login request of an active, login-enabled user whose record is    *)
(* permanently locked is refused as AccountLocked, whatever the password,  *)
(* and leaves the record as it is.  No login request on a permanently      *)
(* locked record succeeds.                                                 *)
(***************************************************************************)
C17_PermanentLockAbsorbing ==
    [][/\ \A u \in DOMAIN logins :
              logins[u].lockLevel >= 4 => logins[u].isPermanentlyLocked
       /\ \A u \in DOMAIN logins :
              (last'.op = "login" /\ logins[u].isPermanentlyLocked)
              => /\ u \in DOMAIN logins'
                 /\ logins'[u].isPermanentlyLocked
       /\ \A u \in DOMAIN logins :
              (LoginStep(u) /\ logins[u].isPermanentlyLocked)
              => /\ last'.status \notin {"LoggedIn", "AlreadyLoggedIn"}
                 /\ logins' = logins
                 /\ (u \in users /\ isActive[u] /\ canLogin[u])
                    => last'.status = "AccountLocked"]_vars

\* The right password was refused on a permanently locked record.
C17_Witness ==
    /\ last.op = "login"
    /\ last.status = "AccountLocked"
    /\ last.password = "pw"
    /\ logins[LoginUser].isPermanentlyLocked
    /\ logins[LoginUser].lockLevel = 4

(***************************************************************************)
(* C18  A successful authentication leaves the record with 0 failed        *)
(* attempts, lockLevel 0, no lockUntil and no permanent lock, on every     *)
(* success path, the one that answers "already logged in on this device"   *)
(* included.                                                               *)
(***************************************************************************)
C18_SuccessResetsLock ==
    \A u \in DOMAIN logins :
        (/\ last.op = "login"
         /\ last.status \in {"LoggedIn", "AlreadyLoggedIn"}
         /\ logins[u].username = ToLowerCase(last.username))
        => /\ logins[u].failedLoginAttempts = 0
           /\ logins[u].lockLevel = 0
           /\ logins[u].lockUntil = Null
           /\ ~logins[u].isPermanentlyLocked

\* The status the checks that precede the comparison give for the record of
\* user u, in the order the claim states; NoValue when none of them refuses.
RefusedBeforeComparison(u) ==
    IF u \notin users THEN "UserNotFound"
    ELSE IF ~isActive[u] THEN "Inactive"
    ELSE IF ~canLogin[u] THEN "CannotLogin"
    ELSE IF logins[u].isPermanentlyLocked THEN "AccountLocked"
    ELSE IF logins[u].lockUntil # Null /\ logins[u].lockUntil > now
         THEN "TemporarilyLocked"
    ELSE NoValue

(***************************************************************************)
(* C19  The rejections that precede the comparison of the secret leave     *)
(* the stored records exactly as they were and are evaluated in the order  *)
(* unknown username, inactive or login-disabled user, permanently locked   *)
(* record, lockUntil in the future: a login request gets the first of      *)
(* these that applies, and a request refused by one of them changes        *)
(* neither the login records nor the user's lastLogin.                     *)
(***************************************************************************)
C19_EarlyRejections ==
    [][(last'.op = "login" /\ now' = now
        /\ last'.username # NoValue /\ last'.password # NoValue)
       => /\ (\A u \in DOMAIN logins :
                 logins[u].username # ToLowerCase(last'.username))
             => last'.status = "NotFound"
          /\ \A u \in DOMAIN logins :
                (logins[u].username = ToLowerCase(last'.username))
                => /\ RefusedBeforeComparison(u) # NoValue
                      => last'.status = RefusedBeforeComparison(u)
                   /\ RefusedBeforeComparison(u) = NoValue
                      => last'.status \notin
                            {"NotFound", "UserNotFound", "Inactive",
                             "CannotLogin", "AccountLocked",
                             "TemporarilyLocked"}
          /\ last'.status \in {"NotFound", "UserNotFound", "Inactive",
                               "CannotLogin", "AccountLocked",
                               "TemporarilyLocked"}
             => /\ logins' = logins
                /\ lastLogin' = lastLogin
                /\ isActive' = isActive
                /\ canLogin' = canLogin]_vars

\* An inactive user whose record is also locked was refused as inactive.
C19_Witness ==
    /\ last.op = "login"
    /\ last.status = "Inactive"
    /\ ~isActive[LoginUser]
    /\ LoginUser \in DOMAIN logins
    /\ logins[LoginUser].lockUntil # Null
    /\ logins[LoginUser].lockUntil > now
    /\ logins[LoginUser].failedLoginAttempts = 0
    /\ logins[LoginUser].lockLevel = 1

\* The request recorded in last' names no device of u's registry, by its
\* device id or by its IP address and user agent.
MatchesNoDevice(u) ==
    \A i \in 1..Len(logins[u].loggedInDevices) :
        LET d == logins[u].loggedInDevices[i] IN
        /\ (last'.deviceId = NoValue \/ d.deviceId # last'.deviceId)
        /\ ~(/\ d.ipAddress = last'.ipAddress
              /\ d.userAgent = (IF last'.userAgent = NoValue THEN "unknown"
                                 ELSE last'.userAgent))

(***************************************************************************)
(* C20  The device registry of a login record never holds more than        *)
(* maxAllowedDevices entries, and a login with the right password that     *)
(* matches no registered device while the registry already holds           *)
(* maxAllowedDevices entries or more fails as device limit exceeded and    *)
(* adds no device (it changes no record).                                  *)
(***************************************************************************)
C20_DeviceLimit ==
    [][\A u \in DOMAIN logins :
          /\ u \in DOMAIN logins'
             => Len(logins'[u].loggedInDevices) <= logins'[u].maxAllowedDevices
          /\ (/\ LoginStep(u)
              /\ ReachesComparison(u)
              /\ Compare(last'.password, logins[u].password)
              /\ MatchesNoDevice(u)
              /\ Len(logins[u].loggedInDevices) >= logins[u].maxAllowedDevices)
             => /\ last'.status = "DeviceLimit"
                /\ logins' = logins]_vars

\* A third device was refused while two are registered.
C20_Witness ==
    /\ last.op = "login"
    /\ last.status = "DeviceLimit"
    /\ Len(logins[LoginUser].loggedInDevices) = MaxAllowedDevices
    /\ \A i \in 1..Len(logins[LoginUser].loggedInDevices) :
           logins[LoginUser].loggedInDevices[i].deviceId # last.deviceId

\* The sessions of a device that have no logoutAt, by their place in its
\* loginHistory.
OpenSessions(device) ==
    {k \in 1..Len(device.loginHistory) : device.loginHistory[k].logoutAt = Null}

(***************************************************************************)
(* C21  In every reachable state every device entry of every login record  *)
(* has at most one open session (a loginHistory entry without logoutAt),   *)
(* and if it has one it is the last entry of the device's history; after   *)
(* any sequence of logins, logouts and bulk terminations.                  *)
(***************************************************************************)
C21_OneOpenSession ==
    \A u \in DOMAIN logins :
        \A i \in 1..Len(logins[u].loggedInDevices) :
            LET device == logins[u].loggedInDevices[i] IN
            /\ Cardinality(OpenSessions(device)) <= 1
            /\ OpenSessions(device) \subseteq {Len(device.loginHistory)}

\* A device that logged in again after its first session was closed, while
\* another device of the same user has an open session too.
C21_Witness ==
    \E i, j \in 1..Len(logins[1].loggedInDevices) :
        /\ i # j
        /\ Len(logins[1].loggedInDevices[i].loginHistory) = 2
        /\ OpenSessions(logins[1].loggedInDevices[i]) = {2}
        /\ OpenSessions(logins[1].loggedInDevices[j]) # {}

(***************************************************************************)
(* C22  A login with the right password on a device that already has an   *)
(* open session answers success ("already logged in") and leaves the       *)
(* device entry as it is: no history entry is appended, loginCount is not  *)
(* incremented and no new refresh token is stored.                         *)
(***************************************************************************)
C22_AlreadyLoggedInFrame ==
    [][\A u \in DOMAIN logins :
          /\ (/\ LoginStep(u)
              /\ ReachesComparison(u)
              /\ Compare(last'.password, logins[u].password)
              /\ \E i \in 1..Len(logins[u].loggedInDevices) :
                     /\ logins[u].loggedInDevices[i].deviceId = last'.deviceId
                     /\ OpenSessions(logins[u].loggedInDevices[i]) # {})
             => last'.status = "AlreadyLoggedIn"
          /\ (LoginStep(u) /\ last'.status = "AlreadyLoggedIn")
             => /\ u \in DOMAIN logins'
                /\ logins'[u].loggedInDevices = logins[u].loggedInDevices]_vars

\* Device d1, which has an open session, logged in again.
C22_Witness ==
    /\ last.op = "login"
    /\ last.status = "AlreadyLoggedIn"
    /\ last.deviceId = "d1"
    /\ \E i \in 1..Len(logins[LoginUser].loggedInDevices) :
           /\ logins[LoginUser].loggedInDevices[i].deviceId = "d1"
           /\ logins[LoginUser].loggedInDevices[i].loginCount = 1
           /\ OpenSessions(logins[LoginUser].loggedInDevices[i]) = {1}

\* The refresh tokens that POST /refresh-token accepts for a device id.
AcceptedTokens(deviceId) ==
    {t \in ClientTokens : RefreshOutcome(t, deviceId) = "Refreshed"}

(***************************************************************************)
(* C23  POST /refresh-token succeeds only if the token is the one that is  *)
(* stored on the entry of exactly that device of the token's user: a       *)
(* well-formed token that a later login on the device has replaced, that   *)
(* a logout or a bulk termination has cleared, or that was issued for      *)
(* another device, is refused.  At any time at most one token is accepted  *)
(* for a device.                                                           *)
(***************************************************************************)
C23_OnlyStoredTokenRefreshes ==
    [][/\ (last'.op = "refresh" /\ last'.status = "Refreshed")
          => /\ last'.token # NoToken
             /\ last'.token.id \in DOMAIN logins
             /\ last'.token.deviceId = last'.deviceId
             /\ \E i \in 1..Len(logins[last'.token.id].loggedInDevices) :
                    LET d == logins[last'.token.id].loggedInDevices[i] IN
                    /\ d.deviceId = last'.deviceId
                    /\ d.refreshToken = last'.token
                    /\ OpenSessions(d) # {}
       /\ \A deviceId \in SessionDevices :
              Cardinality(AcceptedTokens(deviceId)) <= 1]_vars

\* The token of the second session of device d1 was accepted; the token of
\* its first session, signed a tick earlier, is no longer the stored one.
C23_Witness ==
    /\ last.op = "refresh"
    /\ last.status = "Refreshed"
    /\ last.deviceId = "d1"
    /\ last.token.iat = 2
    /\ \E i \in 1..Len(logins[LoginUser].loggedInDevices) :
           /\ logins[LoginUser].loggedInDevices[i].deviceId = "d1"
           /\ Len(logins[LoginUser].loggedInDevices[i].loginHistory) = 2
           /\ logins[LoginUser].loggedInDevices[i].loginHistory[1].loginAt = 1
    /\ Len(logins[LoginUser].loggedInDevices) = 2

\* The device of u's registry with the device id of the request in last',
\* by its place; 0 when there is none.
DeviceAt(u, deviceId) ==
    IF \E i \in 1..Len(logins[u].loggedInDevices) :
           logins[u].loggedInDevices[i].deviceId = deviceId
    THEN CHOOSE i \in 1..Len(logins[u].loggedInDevices) :
           /\ logins[u].loggedInDevices[i].deviceId = deviceId
           /\ \A k \in 1..(i - 1) :
                  logins[u].loggedInDevices[k].deviceId # deviceId
    ELSE 0

\* The sessions of a history that have no logoutAt.
OpenEntries(history) == {history[k] : k \in OpenSessions([loginHistory |-> history])}

(***************************************************************************)
(* C24  POST /logout for a known device stamps a logout time on the        *)
(* device's last session if that is open and sets the device's refresh     *)
(* token to null; it removes no open session of any device (the stamped    *)
(* one stays in the history) and leaves the open sessions and the refresh  *)
(* tokens of the other devices as they are.  For an unknown device id it   *)
(* fails with not found and changes nothing.                               *)
(***************************************************************************)
C24_EndSession ==
    [][\A u \in DOMAIN logins :
          (/\ last'.op = "logout"
           /\ now' = now
           /\ IF last'.userId # Null THEN u = last'.userId
              ELSE /\ last'.username # NoValue
                   /\ logins[u].username = ToLowerCase(last'.username))
          => LET i == DeviceAt(u, last'.deviceId)
                 before == logins[u].loggedInDevices
                 after == logins'[u].loggedInDevices
             IN
             IF i = 0
             THEN /\ last'.status \in {"Required", "NotFound", "DeviceNotFound"}
                  /\ logins' = logins
             ELSE /\ last'.status = "LoggedOut"
                  /\ Len(after) = Len(before)
                  /\ after[i].deviceId = before[i].deviceId
                  /\ after[i].refreshToken = NoToken
                  /\ OpenSessions(after[i]) = {}
                  /\ \A s \in OpenEntries(before[i].loginHistory) :
                         /\ Len(after[i].loginHistory) > 0
                         /\ after[i].loginHistory[Len(after[i].loginHistory)]
                                = [s EXCEPT !.logoutAt = now]
                  /\ \A j \in (1..Len(before)) \ {i} :
                         /\ after[j].deviceId = before[j].deviceId
                         /\ after[j].refreshToken = before[j].refreshToken
                         /\ OpenEntries(after[j].loginHistory)
                                = OpenEntries(before[j].loginHistory)
                  /\ \A v \in (DOMAIN logins) \ {u} : logins'[v] = logins[v]]_vars

\* A day later device d2 logged out: the closed first session of d1 was
\* dropped from its history and the open second one was kept.
C24_Witness ==
    /\ last.op = "logout"
    /\ last.status = "LoggedOut"
    /\ last.deviceId = "d2"
    /\ now > DayTicks
    /\ \E j \in 1..Len(logins[LoginUser].loggedInDevices) :
           LET d == logins[LoginUser].loggedInDevices[j] IN
           /\ d.deviceId = "d1"
           /\ d.loginCount = 2
           /\ Len(d.loginHistory) = 1
           /\ d.loginHistory[1].loginAt = 1
           /\ OpenSessions(d) = {1}

\* The request in last' is a bulk termination that was answered with success.
BulkSucceeded ==
    \/ last'.op = "logoutfromall" /\ last'.status = "LoggedOutAll"
    \/ last'.op = "logout-multiple" /\ last'.status = "LoggedOutSelected"
    \/ last'.op = "logout-all" /\ last'.status = "LoggedOutBelow"

\* The users whose sessions the bulk termination in last' is to end: the
\* user named for logout-all-devices, the named users that are strictly
\* junior to the actor for logout-selected-users, every user strictly
\* junior to the actor for logout-all-subordinates.
Targeted(u) ==
    CASE last'.op = "logoutfromall"   -> u \in last'.userIds
      [] last'.op = "logout-multiple" ->
             u \in last'.userIds /\ u # last'.actor
                 /\ StrictlySenior(last'.actor, u)
      [] last'.op = "logout-all"      ->
             u # last'.actor /\ StrictlySenior(last'.actor, u)
      [] OTHER -> FALSE

\* No device of the record has an open session or a refresh token, and the
\* record is not logged in.
Terminated(login) ==
    /\ ~login.isLoggedIn
    /\ \A i \in 1..Len(login.loggedInDevices) :
           /\ OpenSessions(login.loggedInDevices[i]) = {}
           /\ login.loggedInDevices[i].refreshToken = NoToken

(***************************************************************************)
(* C25  After a successful bulk termination (logout from all devices,      *)
(* logout of selected users, logout of all users below) every targeted     *)
(* login record has no open session on any device, no stored refresh       *)
(* token on any device and isLoggedIn = false; the login records that      *)
(* were not targeted are unchanged.                                        *)
(***************************************************************************)
C25_BulkTermination ==
    [][BulkSucceeded
       => /\ DOMAIN logins' = DOMAIN logins
          /\ \A u \in DOMAIN logins :
                IF Targeted(u)
                THEN Terminated(logins'[u])
                ELSE logins'[u] = logins[u]]_vars

\* User 1 logged user 2 out: the session of user 2 was closed just now and
\* the two sessions of user 1 are open.
C25_Witness ==
    /\ last.op = "logout-multiple"
    /\ last.status = "LoggedOutSelected"
    /\ last.actor = 1
    /\ last.userIds = {1, 2}
    /\ Len(logins[2].loggedInDevices) = 1
    /\ Terminated(logins[2])
    /\ logins[2].loggedInDevices[1].loginHistory[1].logoutAt = now
    /\ Len(logins[1].loggedInDevices) = 2
    /\ \A i \in 1..2 : OpenSessions(logins[1].loggedInDevices[i]) # {}
    /\ logins[1].isLoggedIn

RECURSIVE FailTimes(_, _)
FailTimes(login, k) ==
    IF k = 0 THEN login ELSE FailTimes(AfterMismatch(login), k - 1)

\* The lock state of a record.
LockState(login) ==
    <<login.failedLoginAttempts, login.lockLevel, login.lockUntil,
      login.isPermanentlyLocked>>

\* The requests that were answered as a wrong password.
FailedRequests ==
    {r \in DOMAIN inflight :
        /\ inflight[r].pc = "done"
        /\ inflight[r].outcome \in {"InvalidCredentials", "LockedOut"}}

(***************************************************************************)
(* C27  Attempt counting is atomic per record: after k login requests      *)
(* with a wrong password against the same username, handled at the same    *)
(* time, the stored lock state is the one that k failures handled one      *)
(* after another leave (two requests never both read the same counter and  *)
(* write the same counter + 1).                                            *)
(***************************************************************************)
C27_NoLostUpdate ==
    (DOMAIN inflight = Requests /\ FailedRequests = Requests)
    => LockState(logins[LoginUser])
          = LockState(FailTimes(NewLogin("U1", "pw"), NumRequests))

(***************************************************************************)
(* C28  In every reachable state every user that is not deleted and has    *)
(* canLogin = true has a login record (one, the collection holds at most   *)
(* one per user): registerUser with canLogin true creates it with the      *)
(* user, and a soft delete followed by restoreUser does not leave a        *)
(* login-enabled user without one.                                         *)
(***************************************************************************)
C28_CredentialExists ==
    \A u \in users :
        (~isDeleted[u] /\ canLogin[u]) => u \in DOMAIN logins

\* No id is at two places of the array.
NoRepeat(array) ==
    \A i, j \in 1..Len(array) : array[i] = array[j] => i = j

AssignTwice(current, branchIds) ==
    LET once == BranchesResult(current, branchIds, "assign")
        twice == BranchesResult(once.assigned, branchIds, "assign")
    IN once.status = "BranchesAssigned" =>
           /\ twice.status = "AlreadyAssigned"
           /\ IdsOf(twice.assigned) = IdsOf(once.assigned)
           /\ NoRepeat(once.assigned)

RemoveTwice(current, branchIds) ==
    LET once == BranchesResult(current, branchIds, "remove")
        twice == BranchesResult(once.assigned, branchIds, "remove")
    IN once.status = "BranchesRemoved" =>
           /\ twice.status = "NotAssigned"
           /\ IdsOf(twice.assigned) = IdsOf(once.assigned)

RemoveAfterAssign(current, branchIds) ==
    LET once == BranchesResult(current, branchIds, "assign")
        back == BranchesResult(once.assigned, branchIds, "remove")
    IN once.status = "BranchesAssigned" =>
           IdsOf(back.assigned) = IdsOf(current)

(***************************************************************************)
(* C29  Branch assignment is idempotent: from every reachable array of a   *)
(* user, "assign" of B applied twice leaves the same set of assigned       *)
(* branches as applied once, no id is twice in the array (also when B      *)
(* lists an id twice) and the second call reports the ids as already       *)
(* assigned; "remove" applied twice equals once; "remove" of B after       *)
(* "assign" of B gives the set there was before.                           *)
(***************************************************************************)
C29_AssignIdempotent ==
    \A u \in users :
        /\ NoRepeat(assignedBranches[u])
        /\ \A branchIds \in BranchIdArrays :
               /\ AssignTwice(assignedBranches[u], branchIds)
               /\ RemoveTwice(assignedBranches[u], branchIds)
               /\ RemoveAfterAssign(assignedBranches[u], branchIds)

\* The ids that are in one of the two arrays only.
ChangedBranches(before, after) ==
    (IdsOf(after) \ IdsOf(before)) \cup (IdsOf(before) \ IdsOf(after))

(***************************************************************************)
(* C30  Every successful branch assign or remove adds one entry (action,   *)
(* branch, user) per changed branch to the BranchAssignmentLog             *)
(* collection, and no step modifies or removes an entry of it.             *)
(***************************************************************************)
C30_AuditLogged ==
    [][/\ branchAssignmentLogs \subseteq branchAssignmentLogs'
       /\ last'.status \in {"BranchesAssigned", "BranchesRemoved"}
              /\ assignedBranches' # assignedBranches
           => \A b \in ChangedBranches(assignedBranches[last'.id],
                                       assignedBranches'[last'.id]) :
                  \E entry \in branchAssignmentLogs' \ branchAssignmentLogs :
                      /\ entry.user = last'.id
                      /\ entry.branch = b
                      /\ entry.action = last'.op]_vars

\* The branches the acting user may give: its own and its assigned ones.
AccessibleBranches(actor) == assignedBranchIds(actor) \cup {branch[actor]}

(***************************************************************************)
(* C31  registerUser and updateUser give a user the branch b only if b is  *)
(* the acting user's own branch or one of its assignedBranches at the      *)
(* time of the request; a request that is refused creates no user and      *)
(* changes no branch.                                                      *)
(***************************************************************************)
C31_BranchAuthorized ==
    [][last'.op \in {"register", "update"} =>
          \A u \in users' :
              (u \notin users \/ branch'[u] # branch[u]) =>
                  /\ last'.status \in {"Registered", "Updated"}
                  /\ last'.actor \in users
                  /\ branch'[u] \in AccessibleBranches(last'.actor)]_vars

(***************************************************************************)
(* C32  In every state reached through the routes that write reportingTo,  *)
(* the upward walks end within as many hops as there are users: neither    *)
(* the walk of willCreateCircularReporting from a manager, also one whose  *)
(* chain holds a cycle that does not pass through the target, nor the      *)
(* walk of getReportingChainUp goes on without end.                        *)
(***************************************************************************)
C32_UpwardWalksEnd ==
    \A u \in users :
        /\ ChainWalk(u, << >>, Cardinality(Ids)).done
        /\ \A target \in users : willCreateCircularReporting(target, u) # "hang"

(***************************************************************************)
(* C33  getUserHierarchy ends and returns each user below the root once,   *)
(* also when the reportingTo relation holds a cycle.                       *)
(***************************************************************************)
C33_HierarchyEnds ==
    \A u \in users : HierarchyEnds(u, Cardinality(Ids))

(***************************************************************************)
(* C34  assignReportingTo never stores an edge userId -> reportingToId     *)
(* when userId is already above reportingToId, at any depth: no sequence   *)
(* of its calls makes a user its own ancestor.                             *)
(***************************************************************************)
C34_AssignReportingToAcyclic ==
    [][(last'.op = "assignReportingTo" /\ reportingTo' # reportingTo) =>
           /\ last'.id \notin AncestorsOf(last'.mgr)
           /\ \A u \in users : ~IsDescendant(u, u)']_vars

(***************************************************************************)
(* C35  Ending the session on a registered device makes room in a full     *)
(* registry: a login with the right password from a device the registry    *)
(* does not know is refused for the device limit only while every          *)
(* registered device has an open session.                                  *)
(***************************************************************************)
C35_LogoutFreesDevice ==
    (last.op = "login" /\ last.status = "DeviceLimit") =>
        \A i \in 1..Len(logins[LoginUser].loggedInDevices) :
            HasOpenSession(logins[LoginUser].loggedInDevices[i])

\* The record is permanently locked or its lockUntil is in the future.
Locked(login) == login.isPermanentlyLocked \/ IsTemporarilyLocked(login)

(***************************************************************************)
(* C36  No request is given an access token for a record that is           *)
(* permanently locked or whose lockUntil is in the future: loginUser,      *)
(* reAuthenticateUser and refreshAccessToken refuse while the record is    *)
(* locked; and a wrong password sent to reAuthenticateUser counts as one   *)
(* more failed attempt.                                                    *)
(***************************************************************************)
C36_LockedIssuesNothing ==
    [][now' = now =>
          /\ (last'.op = "login" /\ last'.status = "LoggedIn") =>
                 ~Locked(logins[LoginUser])
          /\ (last'.op = "refresh" /\ last'.status = "Refreshed") =>
                 ~Locked(logins[last'.token.id])
          /\ (last'.op = "reauth" /\ last'.status = "ReAuthenticated") =>
                 ~Locked(logins[last'.userId])
          /\ (last'.op = "reauth" /\ last'.status = "IncorrectPassword") =>
                 logins'[last'.userId] = AfterMismatch(logins[last'.userId])]_vars

(***************************************************************************)
(* C37  In every reachable state isLoggedIn of a login record is true if   *)
(* and only if some device of its registry has an open session; after any  *)
(* sequence of logins, logouts and bulk terminations.                      *)
(***************************************************************************)
C37_FlagIffOpenSession ==
    \A u \in DOMAIN logins :
        logins[u].isLoggedIn <=>
            \E i \in 1..Len(logins[u].loggedInDevices) :
                OpenSessions(logins[u].loggedInDevices[i]) # {}

\* A logout from one device of a user that has a session open on another.
C37_Witness ==
    /\ last.op = "logout"
    /\ last.status = "LoggedOut"
    /\ logins[last.userId].isLoggedIn
    /\ \E u \in DOMAIN logins :
           /\ ~logins[u].isLoggedIn
           /\ Len(logins[u].loggedInDevices) > 0

(***************************************************************************)
(* C38  In every reachable state a device entry holds a refresh token      *)
(* only while it has an open session: a device whose last session carries  *)
(* a logout time (or that has no session left) stores no token, and a      *)
(* refresh that succeeds is one for a device with an open session.         *)
(***************************************************************************)
C38_TokenOnlyWhileOpen ==
    /\ \A u \in DOMAIN logins :
           \A i \in 1..Len(logins[u].loggedInDevices) :
               ~HasOpenSession(logins[u].loggedInDevices[i]) =>
                   logins[u].loggedInDevices[i].refreshToken = NoToken
    /\ (last.op = "refresh" /\ last.status = "Refreshed") =>
           \E i \in 1..Len(logins[last.token.id].loggedInDevices) :
               /\ logins[last.token.id].loggedInDevices[i].deviceId = last.deviceId
               /\ HasOpenSession(logins[last.token.id].loggedInDevices[i])

\* A refresh that succeeds for one device of a record of which another
\* device was logged out.
C38_Witness ==
    /\ last.op = "refresh"
    /\ last.status = "Refreshed"
    /\ \E i \in 1..Len(logins[LoginUser].loggedInDevices) :
           /\ Len(logins[LoginUser].loggedInDevices[i].loginHistory) > 0
           /\ ~HasOpenSession(logins[LoginUser].loggedInDevices[i])
           /\ logins[LoginUser].loggedInDevices[i].refreshToken = NoToken

\* The devices that requests were told they are logged in from.
AdmittedDevices ==
    {inflight[r].deviceId :
        r \in {q \in DOMAIN inflight : /\ inflight[q].pc = "done"
                                       /\ inflight[q].outcome = "LoggedIn"}}

(***************************************************************************)
(* C39  Device admission is atomic per record: however two logins with     *)
(* the right password from two devices the registry does not know are      *)
(* interleaved, the stored registry never holds more than                  *)
(* maxAllowedDevices devices, and every device that was admitted has its   *)
(* entry in it.                                                            *)
(***************************************************************************)
C39_AdmissionAtomic ==
    LET devices == logins[LoginUser].loggedInDevices IN
    (\A r, q \in DOMAIN inflight :
         r # q => inflight[r].deviceId # inflight[q].deviceId)
    => /\ Len(devices) <= logins[LoginUser].maxAllowedDevices
       /\ \A d \in AdmittedDevices :
              \E i \in 1..Len(devices) : devices[i].deviceId = d

\* The record has a temporary lock that has run out.
LockExpired(login) == login.lockUntil # Null /\ login.lockUntil <= now

(***************************************************************************)
(* C40  The lock level escalates across lock expiries: the lockLevel of a  *)
(* record decreases only in a successful login, which sets it to 0; the    *)
(* third failure after a level-k lock has run out gives level k + 1 with   *)
(* the duration of that level, not level 1 again; and isPermanentlyLocked  *)
(* is true exactly when lockLevel is 4 or more.                            *)
(***************************************************************************)
C40_LockLevelEscalates ==
    [][\A u \in (DOMAIN logins) \cap (DOMAIN logins') :
           /\ logins'[u].lockLevel < logins[u].lockLevel =>
                  /\ last'.op = "login"
                  /\ last'.status = "LoggedIn"
                  /\ logins'[u].lockLevel = 0
           /\ (/\ LockExpired(logins[u])
               /\ now' = now
               /\ last'.op = "login"
               /\ last'.status = "LockedOut"
               /\ u \in FindLogin(last'.username)) =>
                  /\ logins'[u].lockLevel = logins[u].lockLevel + 1
                  /\ logins'[u].lockLevel >= 2
                  /\ logins'[u].lockLevel < 4 =>
                         logins'[u].lockUntil =
                             now + LockMinutes(logins'[u].lockLevel)
                                       * TicksPerMinute
           /\ logins'[u].isPermanentlyLocked <=> logins'[u].lockLevel >= 4]_vars

\* The third failure after the level-1 lock ran out has given level 2.
C40_Witness ==
    /\ last.op = "login"
    /\ last.status = "LockedOut"
    /\ logins[LoginUser].lockLevel = 2
    /\ logins[LoginUser].lockUntil = now + 3 * TicksPerMinute
    /\ ~logins[LoginUser].isPermanentlyLocked

====
